---- MODULE Spec2Model ----
(***************************************************************************)
(* A model of location-monitor: the service facade (LocationMonitorService)*)
(* over the in-memory storage adapter (MemoryAdapter), with the location,  *)
(* status, watchdog and geofence engines.                                  *)
(*                                                                         *)
(* Every asynchronous operation is split at its awaits: one action is the  *)
(* code between two awaits (a storage call takes effect when it is made,   *)
(* the caller resumes in a later step).  The variable conc says whether    *)
(* clients overlap their calls; when it is FALSE a new call starts only    *)
(* once every earlier one has run to completion.                           *)
(*                                                                         *)
(* Units: time in milliseconds, coordinates in thousandths of a degree,    *)
(* distance in metres, speed in metres per hour.                           *)
(***************************************************************************)
EXTENDS Integers, Sequences, FiniteSets, TLC

(***************************************************************************)
(* Bounds and input domains                                                *)
(***************************************************************************)
MaxTasks == 3
MaxCalls == 3
GeoCalls == 6
DataCalls == 5
LiveCalls == 2
StartTime == 10000
MaxTime == 3000
LiveTime == 12000
EventCalls == 5
EventTime == 3000
ConcCalls == 3
ConcTime == 1000
SnapCalls == 3
SnapTime == 2000
ZoneCalls == 4
SweepCalls == 4
SweepTime == 3000
StatusCalls == 4
StatusTime == 4000
WatchCalls == 5
UnderwayCalls == 4
HaltCalls == 3
HaltTime == 3000
RestartCalls == 6
RepeatCalls == 4
RepeatTime == 3000
JumpCalls == 4
JumpTime == 1000
RaceCalls == 4
RaceTime == 1000
RaceOverlap == 2
WatchTime == 6000

Agents == {"a1", "a2"}
Zones == {"z1", "z2"}
TaskIds == 1..MaxTasks
Delays == {1000, 3000}

(***************************************************************************)
(* Program constants                                                       *)
(***************************************************************************)
MaxLatitude == 90000
MaxLongitude == 180000
FutureSlack == 60000
MetresPerUnit == 111
MsPerHour == 3600000
MinSpeed == 1500
MaxJumpDistance == 300

NoStatus == "NONE"
AgentStatus == {"ACTIVE", "IDLE", "MOVING", "STOPPED", "UNREACHABLE", "OFFLINE"}
NoSpeed == -1

\* The number that is not a number: no comparison with it holds.
NaN == 999999999
isNaN(x) == x = NaN

\* The comparisons of numbers: none holds of the number that is not one.
Less(x, y) == ~isNaN(x) /\ ~isNaN(y) /\ x < y
LessEq(x, y) == ~isNaN(x) /\ ~isNaN(y) /\ x <= y

Abs(x) == IF x < 0 THEN -x ELSE x

(***************************************************************************)
(* Records.  An absent value is a record with has = FALSE.                 *)
(***************************************************************************)
NoLocation == [has |-> FALSE, lat |-> 0, lon |-> 0, ts |-> 0, speed |-> NoSpeed]
LocationData(lat, lon, ts, speed) ==
    [has |-> TRUE, lat |-> lat, lon |-> lon, ts |-> ts, speed |-> speed]

NoState ==
    [has |-> FALSE, status |-> NoStatus, lastLocation |-> NoLocation,
     lastUpdate |-> 0, lastMovement |-> 0, totalDistanceTraveled |-> 0,
     activeGeofences |-> {}]

NoStats == [has |-> FALSE, totalLocations |-> 0, totalDistance |-> 0, lastUpdate |-> 0]

\* A zone: named says that it has an id and a name; a circular one has a
\* centre (lat, lon) and a radius, a polygon its vertices in coordinates.
NoGeofence ==
    [has |-> FALSE, type |-> "", lat |-> 0, lon |-> 0, radius |-> 0,
     coordinates |-> <<>>, named |-> FALSE]
CircularGeofence(lat, lon, radius, named) ==
    [has |-> TRUE, type |-> "circular", lat |-> lat, lon |-> lon, radius |-> radius,
     coordinates |-> <<>>, named |-> named]
PolygonGeofence(coordinates, named) ==
    [has |-> TRUE, type |-> "polygon", lat |-> 0, lon |-> 0, radius |-> 0,
     coordinates |-> coordinates, named |-> named]
Vertex(lat, lon) == [lat |-> lat, lon |-> lon]

\* An event; handlers are the subscribers publishEvent has invoked with it.
Event(type, a, old, new, zone, dist) ==
    [type |-> type, agent |-> a, oldStatus |-> old, newStatus |-> new,
     zone |-> zone, distanceTraveled |-> dist, handlers |-> <<>>]

\* The subscribers of the model: one that returns, one that throws, and one
\* that returns a promise that rejects.
Handlers == {"returns", "throws", "rejects"}

(***************************************************************************)
(* Configurations (thresholds, watchdog, geofence switches)                *)
(***************************************************************************)
Config(idle, unreach, offline, wd, interval, geo) ==
    [idleAfter |-> idle, unreachableAfter |-> unreach, offlineAfter |-> offline,
     minSpeed |-> MinSpeed, maxJumpDistance |-> MaxJumpDistance,
     watchdogEnabled |-> wd, checkInterval |-> interval, geofenceEnabled |-> geo]

(***************************************************************************)
(* Geo primitives and time utilities                                       *)
(***************************************************************************)
\* Haversine on the grid: exact (to the metre) along a meridian, where every
\* valid input of the model lies.
calculateDistance(lat1, lon1, lat2, lon2) ==
    MetresPerUnit * (Abs(lat2 - lat1) + Abs(lon2 - lon1))

calculateSpeed(distanceMeters, timeMs) ==
    IF timeMs = 0 THEN 0 ELSE (distanceMeters * MsPerHour) \div timeMs

\* Whether a movement is abnormally large: never within a second.
isAbnormalJump(distanceMeters, timeMs, maxJumpDistance) ==
    IF timeMs < 1000 THEN FALSE ELSE distanceMeters > maxJumpDistance

isValidCoordinate(latitude, longitude) ==
    /\ ~isNaN(latitude) /\ latitude >= -MaxLatitude
    /\ ~isNaN(latitude) /\ latitude <= MaxLatitude
    /\ ~isNaN(longitude) /\ longitude >= -MaxLongitude
    /\ ~isNaN(longitude) /\ longitude <= MaxLongitude
    /\ ~isNaN(latitude)
    /\ ~isNaN(longitude)

isValidTimestamp(timestamp, now) ==
    /\ timestamp > 0
    /\ timestamp <= now + FutureSlack

isOlderThan(timestamp, durationMs, now) == now - timestamp > durationMs

\* The distance to a centre that is not a number is not a number.
isPointInCircle(latitude, longitude, g) ==
    /\ ~isNaN(g.lat)
    /\ ~isNaN(g.lon)
    /\ LessEq(calculateDistance(latitude, longitude, g.lat, g.lon), g.radius)

\* Ray casting: whether the edge from vertex j to vertex i is crossed by the
\* ray from the point; the quotient of the code is compared by cross
\* multiplication.
EdgeCrossed(latitude, longitude, vi, vj) ==
    LET xi == vi.lon
        yi == vi.lat
        xj == vj.lon
        yj == vj.lat
    IN  /\ (yi > latitude) # (yj > latitude)
        /\ IF yj - yi > 0
           THEN (longitude - xi) * (yj - yi) < (xj - xi) * (latitude - yi)
           ELSE (longitude - xi) * (yj - yi) > (xj - xi) * (latitude - yi)

isPointInPolygon(latitude, longitude, g) ==
    LET vertices == g.coordinates
        n == Len(vertices)
        crossed == {i \in 1..n :
                       EdgeCrossed(latitude, longitude, vertices[i],
                                   vertices[IF i = 1 THEN n ELSE i - 1])}
    IN  Cardinality(crossed) % 2 = 1

isPointInGeofence(latitude, longitude, g) ==
    IF g.type = "circular" THEN isPointInCircle(latitude, longitude, g)
    ELSE isPointInPolygon(latitude, longitude, g)

\* Whether a centre or a vertex is outside the ranges, as validateGeofence
\* tests it.
OutOfRange(lat, lon) ==
    \/ Less(lat, -MaxLatitude)
    \/ Less(MaxLatitude, lat)
    \/ Less(lon, -MaxLongitude)
    \/ Less(MaxLongitude, lon)

validateGeofence(g) ==
    /\ g.named
    /\ IF g.type = "circular"
       THEN /\ ~LessEq(g.radius, 0)
            /\ ~OutOfRange(g.lat, g.lon)
       ELSE IF g.type = "polygon"
       THEN /\ ~(Len(g.coordinates) < 3)
            /\ \A i \in 1..Len(g.coordinates) :
                   ~OutOfRange(g.coordinates[i].lat, g.coordinates[i].lon)
       ELSE TRUE

(***************************************************************************)
(* State                                                                   *)
(***************************************************************************)
VARIABLES
    cfg,            \* the merged configuration of the service
    conc,           \* whether clients overlap their calls
    budget,         \* the number of calls the run may make
    deadline,       \* the time at which the run ends
    clock,          \* Date.now()
    initialized,    \* LocationMonitorService.initialized
    isRunning,      \* WatchdogEngine.isRunning (the interval is scheduled)
    nextTick,       \* when the interval of the watchdog fires next
    timers,         \* the number of intervals set and not cleared
    locations,      \* MemoryAdapter.locations
    statuses,       \* MemoryAdapter.statuses
    states,         \* MemoryAdapter.states
    stats,          \* MemoryAdapter.stats
    eventHandlers,  \* MemoryAdapter.eventHandlers
    geofences,      \* GeoEngine.geofences, by zone id
    geoOrder,       \* insertion order of GeoEngine.geofences
    agentGeofences, \* GeoEngine.agentGeofences
    tasks,          \* the asynchronous calls in flight, each with its locals
    published,      \* the events published by the latest step, in order
    err,            \* how the latest call was answered when it was made
    calls,          \* the number of calls made so far
    done,           \* the latest operation that ran to completion
    accepted,       \* per agent, samples accepted since its data was last erased
    sumDist,        \* per agent, sum of distanceTraveled over location.received
    geoLast,        \* per agent and zone, the latest geofence event published
    geoReset,       \* per agent and zone, whether the engine has dropped the
                    \* membership since that event
    setBy,          \* per agent, the operation that wrote the persisted status
    received,       \* per agent, location.received events published since its
                    \* data was last erased
    subscribed      \* the handlers subscribed since the latest unsubscribeEvents

storeVars == <<locations, statuses, states, stats>>
geoVars == <<geofences, geoOrder, agentGeofences>>
svcVars == <<initialized, isRunning, nextTick, timers>>
envVars == <<cfg, conc, budget, deadline, clock>>
histVars == <<accepted, sumDist, geoLast, geoReset, setBy, received, subscribed>>
vars == <<cfg, conc, budget, deadline, clock, initialized, isRunning, nextTick, timers,
          locations, statuses, states, stats, eventHandlers, geofences, geoOrder,
          agentGeofences, tasks, published, err, calls, done, accepted, sumDist,
          geoLast, geoReset, setBy, received, subscribed>>

\* A call in flight: its operation, where it resumes, its arguments and locals;
\* fresh, prior, priorBy, prev and trace record what the call found when it
\* was made and which events it has published.
IdleTask ==
    [op |-> "idle", pc |-> "", agent |-> "", lat |-> 0, lon |-> 0, status |-> NoStatus,
     last |-> NoLocation, loc |-> NoLocation, dist |-> 0,
     cur |-> NoStatus, old |-> NoStatus, new |-> NoStatus, ret |-> "",
     state |-> NoState, curGeo |-> {}, live |-> FALSE, newGeo |-> {}, pos |-> 0,
     agents |-> {}, parent |-> 0, fresh |-> FALSE, prior |-> NoStatus,
     priorBy |-> "none", prev |-> NoLocation, trace |-> <<>>, jump |-> FALSE]

\* The latest operation that has ended: failed says that it threw after it
\* had started; before is the list of geofences a registerGeofence found, and
\* undoes says that a removeGeofence has removed the zone that the operation
\* before it had registered (before is then the list that one found).  For
\* unsubscribeEvents, before is the list of handlers it dropped, or, when it
\* follows another unsubscribeEvents, the list that one dropped.
DoneOf(k) ==
    [op |-> k.op, agent |-> k.agent, arg |-> k.status, fresh |-> k.fresh,
     prior |-> k.prior, priorBy |-> k.priorBy, trace |-> k.trace,
     failed |-> FALSE, before |-> <<>>, undoes |-> FALSE, jump |-> k.jump]
NoDone ==
    [op |-> "none", agent |-> "", arg |-> "", fresh |-> FALSE, prior |-> NoStatus,
     priorBy |-> "none", trace |-> <<>>, failed |-> FALSE, before |-> <<>>,
     undoes |-> FALSE, jump |-> FALSE]
DoneSync(op, arg) == [NoDone EXCEPT !.op = op, !.arg = arg]

NoAgentGeofences == [has |-> FALSE, ids |-> {}]

Idle == \A t \in TaskIds : tasks[t].op = "idle"
CanStart == calls < budget /\ (conc \/ Idle)
FreeSlot(t) ==
    /\ tasks[t].op = "idle"
    /\ \A u \in TaskIds : u < t => tasks[u].op # "idle"

InitWith(configs, overlap, maxCalls, duration) ==
    /\ cfg \in configs
    /\ conc = overlap
    /\ budget = maxCalls
    /\ deadline = StartTime + duration
    /\ clock = StartTime
    /\ initialized = FALSE
    /\ isRunning = FALSE
    /\ nextTick = 0
    /\ timers = 0
    /\ locations = [a \in Agents |-> NoLocation]
    /\ statuses = [a \in Agents |-> NoStatus]
    /\ states = [a \in Agents |-> NoState]
    /\ stats = [a \in Agents |-> NoStats]
    /\ eventHandlers = <<>>
    /\ geofences = [z \in Zones |-> NoGeofence]
    /\ geoOrder = <<>>
    /\ agentGeofences = [a \in Agents |-> NoAgentGeofences]
    /\ tasks = [t \in TaskIds |-> IdleTask]
    /\ published = <<>>
    /\ err = "none"
    /\ calls = 0
    /\ done = NoDone
    /\ accepted = [a \in Agents |-> 0]
    /\ sumDist = [a \in Agents |-> 0]
    /\ geoLast = [a \in Agents |-> [z \in Zones |-> "none"]]
    /\ geoReset = [a \in Agents |-> [z \in Zones |-> FALSE]]
    /\ setBy = [a \in Agents |-> "none"]
    /\ received = [a \in Agents |-> 0]
    /\ subscribed = <<>>

(***************************************************************************)
(* The storage driver (MemoryAdapter)                                      *)
(***************************************************************************)
\* saveLocation without the count of the sample.
saveLocationUncounted(a, location) ==
    /\ locations' = [locations EXCEPT ![a] = location]
    /\ stats' = [stats EXCEPT ![a] =
           [has |-> TRUE,
            totalLocations |-> stats[a].totalLocations,
            totalDistance |-> stats[a].totalDistance,
            lastUpdate |-> location.ts]]

saveLocation(a, location) ==
    /\ locations' = [locations EXCEPT ![a] = location]
    /\ stats' = [stats EXCEPT ![a] =
           [has |-> TRUE,
            totalLocations |-> stats[a].totalLocations + 1,
            totalDistance |-> stats[a].totalDistance,
            lastUpdate |-> location.ts]]

getLastLocation(a) == locations[a]
saveStatus(a, status) == statuses' = [statuses EXCEPT ![a] = status]
getStatus(a) == statuses[a]
saveAgentState(a, state) == states' = [states EXCEPT ![a] = state]
getAgentState(a) == states[a]
getAgentStats(a) == stats[a]

getAllAgents ==
    {a \in Agents : locations[a].has \/ statuses[a] # NoStatus \/ states[a].has}

\* clearAgentData that leaves the statistics behind.
clearAgentDataKeepStats(a) ==
    /\ locations' = [locations EXCEPT ![a] = NoLocation]
    /\ statuses' = [statuses EXCEPT ![a] = NoStatus]
    /\ states' = [states EXCEPT ![a] = NoState]
    /\ UNCHANGED stats

clearAgentData(a) ==
    /\ locations' = [locations EXCEPT ![a] = NoLocation]
    /\ statuses' = [statuses EXCEPT ![a] = NoStatus]
    /\ states' = [states EXCEPT ![a] = NoState]
    /\ stats' = [stats EXCEPT ![a] = NoStats]

disconnect ==
    /\ locations' = [a \in Agents |-> NoLocation]
    /\ statuses' = [a \in Agents |-> NoStatus]
    /\ states' = [a \in Agents |-> NoState]
    /\ stats' = [a \in Agents |-> NoStats]
    /\ eventHandlers' = <<>>

\* A guard that lets every call through.
ensureInitializedOpen == TRUE

\* The service's guard of every public operation but initialize and shutdown.
ensureInitialized == initialized

\* The call in slot t, grown to k, runs to completion (a check spawned by a
\* sweep is no call of its own).
FinishAs(t, k) ==
    /\ tasks' = [tasks EXCEPT ![t] = IdleTask]
    /\ done' = IF k.parent = 0 THEN DoneOf(k) ELSE done
Finish(t) == FinishAs(t, tasks[t])

\* The call in slot t goes on as k.
Continue(t, k) ==
    /\ tasks' = [tasks EXCEPT ![t] = k]
    /\ UNCHANGED done

\* A call is made and suspends as k at its first await.
Begin(t, k) ==
    /\ tasks' = [tasks EXCEPT ![t] = k]
    /\ err' = "none"
    /\ published' = <<>>
    /\ calls' = calls + 1
    /\ UNCHANGED done

\* A call answered with an error when it is made: nothing else changes.
Rejected(error) ==
    /\ err' = error
    /\ published' = <<>>
    /\ calls' = calls + 1
    /\ UNCHANGED <<envVars, eventHandlers, svcVars, storeVars, geoVars, tasks, done, histVars>>

\* The handlers up to the first one that throws.
RECURSIVE UpToThrow(_)
UpToThrow(handlers) ==
    IF handlers = <<>> THEN <<>>
    ELSE IF Head(handlers) = "throws" THEN <<"throws">>
    ELSE <<Head(handlers)>> \o UpToThrow(Tail(handlers))

\* A publishEvent that lets the exception of a handler end its loop.
publishEventUncaught(event) == [event EXCEPT !.handlers = UpToThrow(eventHandlers)]

\* publishEvent: every handler is invoked with the event, one after another;
\* what a handler throws is caught and logged.
publishEvent(event) == [event EXCEPT !.handlers = eventHandlers]

\* Promise.all over what the handlers returned rejects when one of them has
\* returned a promise that rejects.
publishRejects == \E i \in 1..Len(eventHandlers) : eventHandlers[i] = "rejects"

\* The operations whose failure checkAgent catches and logs.
CaughtOps == {"forceWatchdogCheck", "check"}

\* An exception that ends every call in flight and reaches the caller.
ThrowAborting(t, k) ==
    /\ tasks' = [u \in TaskIds |-> IdleTask]
    /\ done' = [DoneOf(k) EXCEPT !.failed = TRUE]

\* The call in slot t, grown to k, is left by an exception: a check of the
\* watchdog returns all the same, any other call fails to its caller.
Throw(t, k) ==
    /\ tasks' = [tasks EXCEPT ![t] = IdleTask]
    /\ done' = IF k.parent # 0 THEN done
               ELSE IF k.op \in CaughtOps THEN DoneOf(k)
               ELSE [DoneOf(k) EXCEPT !.failed = TRUE]

\* publishEvent by the call in slot t, which goes on as k when the publish
\* resolves.
Publish(t, k, event) ==
    /\ published' = <<publishEvent(event)>>
    /\ IF publishRejects
       THEN Throw(t, [k EXCEPT !.trace = Append(@, event.type)])
       ELSE Continue(t, [k EXCEPT !.trace = Append(@, event.type)])

(***************************************************************************)
(* Status engine: pure parts                                               *)
(***************************************************************************)
SpeedOrZero(location) == IF location.speed = NoSpeed THEN 0 ELSE location.speed

determineStatus(currentLocation, lastLocation) ==
    IF ~lastLocation.has THEN "ACTIVE"
    ELSE IF currentLocation.ts - lastLocation.ts > cfg.unreachableAfter THEN "ACTIVE"
    ELSE IF SpeedOrZero(currentLocation) >= cfg.minSpeed THEN "MOVING"
    ELSE "STOPPED"

\* A check by time that never leaves the status of the snapshot.
timeStatusKept(state, now) == state.status

\* The status checkStatusByTime derives from a snapshot at time now.
timeStatus(state, now) ==
    LET currentStatus == state.status
        s1 == IF /\ isOlderThan(state.lastUpdate, cfg.unreachableAfter, now)
                 /\ currentStatus # "UNREACHABLE"
                 /\ currentStatus # "OFFLINE"
              THEN "UNREACHABLE" ELSE currentStatus
        s2 == IF /\ isOlderThan(state.lastUpdate, cfg.offlineAfter, now)
                 /\ currentStatus # "OFFLINE"
              THEN "OFFLINE" ELSE s1
        s3 == IF /\ state.lastMovement # 0
                 /\ isOlderThan(state.lastMovement, cfg.idleAfter, now)
                 /\ currentStatus \in {"ACTIVE", "MOVING"}
              THEN "IDLE" ELSE s2
    IN  s3

\* emitSpecificStatusEvents with the test of agent.back-online left out.
specificEventsNeverBack(oldStatus, newStatus) ==
    (IF newStatus = "UNREACHABLE" /\ oldStatus # "UNREACHABLE"
     THEN <<"agent.unreachable">> ELSE <<>>)
    \o (IF newStatus = "IDLE" /\ oldStatus # "IDLE"
        THEN <<"agent.idle">> ELSE <<>>)
    \o (IF newStatus = "ACTIVE" /\ oldStatus \in {"IDLE", "STOPPED"}
        THEN <<"agent.active">> ELSE <<>>)

\* emitSpecificStatusEvents: the specialized events of a transition, one for
\* each of its four tests that holds, in the order of the tests.
specificEvents(oldStatus, newStatus) ==
    (IF newStatus = "UNREACHABLE" /\ oldStatus # "UNREACHABLE"
     THEN <<"agent.unreachable">> ELSE <<>>)
    \o (IF /\ oldStatus \in {"UNREACHABLE", "OFFLINE"}
           /\ newStatus \in {"ACTIVE", "MOVING"}
        THEN <<"agent.back-online">> ELSE <<>>)
    \o (IF newStatus = "IDLE" /\ oldStatus # "IDLE"
        THEN <<"agent.idle">> ELSE <<>>)
    \o (IF newStatus = "ACTIVE" /\ oldStatus \in {"IDLE", "STOPPED"}
        THEN <<"agent.active">> ELSE <<>>)

(***************************************************************************)
(* Location engine and the service's track pipeline                        *)
(***************************************************************************)
\* An agent id that is no string (a number, an object).
NonString == "<no string>"
isString(x) == x # NonString

\* A validation that looks at the agent id only.
validateInputIdOnly(agentId, latitude, longitude) ==
    agentId # "" /\ isString(agentId)

validateInput(agentId, latitude, longitude) ==
    /\ ~(agentId = "" \/ ~isString(agentId))
    /\ isValidCoordinate(latitude, longitude)

locationTimestamp(timestamp) ==
    IF timestamp # 0 /\ isValidTimestamp(timestamp, clock) THEN timestamp ELSE clock

\* trackLocation up to its first await: the guards, the timestamp, and the
\* read of the last known location.
TrackCall(t, a, lat, lon, timestamp) ==
    /\ CanStart
    /\ FreeSlot(t)
    /\ IF ~ensureInitialized THEN Rejected("NotInitialized")
       ELSE IF ~validateInput(a, lat, lon) THEN Rejected("InvalidInput")
       ELSE /\ Begin(t, [IdleTask EXCEPT
                   !.op = "track", !.pc = "saveLocation",
                   !.agent = a, !.lat = lat, !.lon = lon,
                   !.loc = LocationData(lat, lon, locationTimestamp(timestamp), NoSpeed),
                   !.last = getLastLocation(a),
                   !.fresh = ~locations[a].has /\ statuses[a] = NoStatus /\ ~states[a].has,
                   !.prior = statuses[a], !.priorBy = setBy[a],
                   !.prev = getLastLocation(a)])
            /\ accepted' = [accepted EXCEPT ![a] = @ + 1]
            /\ UNCHANGED <<envVars, eventHandlers, svcVars, storeVars, geoVars, sumDist,
                           geoLast, geoReset, setBy, received, subscribed>>

\* A location engine that returns once the location is saved.
TrackSaveLocationOnly(t) ==
    LET k == tasks[t]
        locationData == LocationData(k.lat, k.lon, k.loc.ts, NoSpeed)
    IN  /\ k.op = "track" /\ k.pc = "saveLocation"
        /\ saveLocation(k.agent, locationData)
        /\ Continue(t, [k EXCEPT !.loc = locationData, !.pc = "getStatus"])
        /\ published' = <<>>
        /\ UNCHANGED <<envVars, eventHandlers, svcVars, statuses, states, geoVars, err, calls, histVars>>

\* Whether the sample of the call k is logged as an abnormal jump from the
\* last location the call has read.
Flagged(k) ==
    /\ k.last.has
    /\ isAbnormalJump(calculateDistance(k.last.lat, k.last.lon, k.lat, k.lon),
                      k.loc.ts - k.last.ts, cfg.maxJumpDistance)

\* A location engine that rejects the sample it flags as an abnormal jump.
TrackSaveLocationNoJump(t) ==
    LET k == tasks[t]
        distanceTraveled ==
            IF k.last.has
            THEN calculateDistance(k.last.lat, k.last.lon, k.lat, k.lon) ELSE 0
        timeDiff == k.loc.ts - k.last.ts
        speed == IF k.last.has /\ timeDiff > 0
                 THEN calculateSpeed(distanceTraveled, timeDiff) ELSE NoSpeed
        locationData == LocationData(k.lat, k.lon, k.loc.ts, speed)
    IN  /\ k.op = "track" /\ k.pc = "saveLocation"
        /\ IF Flagged(k)
           THEN /\ Throw(t, [k EXCEPT !.jump = TRUE])
                /\ UNCHANGED <<locations, stats>>
           ELSE /\ saveLocation(k.agent, locationData)
                /\ Continue(t, [k EXCEPT !.loc = locationData, !.dist = distanceTraveled,
                                         !.pc = "publishLocation"])
        /\ published' = <<>>
        /\ UNCHANGED <<envVars, eventHandlers, svcVars, statuses, states, geoVars, err, calls, histVars>>

\* The movement metrics (an abnormal jump is logged, no more), then
\* storage.saveLocation.
TrackSaveLocation(t) ==
    LET k == tasks[t]
        distanceTraveled ==
            IF k.last.has
            THEN calculateDistance(k.last.lat, k.last.lon, k.lat, k.lon) ELSE 0
        timeDiff == k.loc.ts - k.last.ts
        speed == IF k.last.has /\ timeDiff > 0
                 THEN calculateSpeed(distanceTraveled, timeDiff) ELSE NoSpeed
        locationData == LocationData(k.lat, k.lon, k.loc.ts, speed)
    IN  /\ k.op = "track" /\ k.pc = "saveLocation"
        /\ saveLocation(k.agent, locationData)
        /\ Continue(t, [k EXCEPT !.loc = locationData, !.dist = distanceTraveled,
                                 !.jump = Flagged(k), !.pc = "publishLocation"])
        /\ published' = <<>>
        /\ UNCHANGED <<envVars, eventHandlers, svcVars, statuses, states, geoVars, err, calls, histVars>>

\* A location engine that publishes no location.received.
TrackPublishLocationSilent(t) ==
    LET k == tasks[t] IN
    /\ k.op = "track" /\ k.pc = "publishLocation"
    /\ Continue(t, [k EXCEPT !.pc = "getStatus"])
    /\ published' = <<>>
    /\ UNCHANGED <<envVars, eventHandlers, svcVars, storeVars, geoVars, err, calls, histVars>>

\* publishEvent(location.received).
TrackPublishLocation(t) ==
    LET k == tasks[t] IN
    /\ k.op = "track" /\ k.pc = "publishLocation"
    /\ Publish(t, [k EXCEPT !.pc = "getStatus"],
               Event("location.received", k.agent, NoStatus, NoStatus, "", k.dist))
    /\ sumDist' = [sumDist EXCEPT ![k.agent] = @ + k.dist]
    /\ received' = [received EXCEPT ![k.agent] = @ + 1]
    /\ UNCHANGED <<envVars, eventHandlers, svcVars, storeVars, geoVars, err, calls, accepted,
                   geoLast, geoReset, setBy, subscribed>>

\* detectStatus: the read of the persisted status.
TrackGetStatus(t) ==
    LET k == tasks[t] IN
    /\ k.op = "track" /\ k.pc = "getStatus"
    /\ Continue(t, [k EXCEPT !.cur = getStatus(k.agent), !.pc = "getLastLocation"])
    /\ published' = <<>>
    /\ UNCHANGED <<envVars, eventHandlers, svcVars, storeVars, geoVars, err, calls, histVars>>

\* detectStatus: the read of the last location.
TrackGetLastLocation(t) ==
    LET k == tasks[t] IN
    /\ k.op = "track" /\ k.pc = "getLastLocation"
    /\ Continue(t, [k EXCEPT !.last = getLastLocation(k.agent), !.pc = "detect"])
    /\ published' = <<>>
    /\ UNCHANGED <<envVars, eventHandlers, svcVars, storeVars, geoVars, err, calls, histVars>>

AfterDetect == IF cfg.geofenceEnabled THEN "checkGeofences" ELSE "getState"

\* A detectStatus that updates the status whether or not it differs.
TrackDetectAlways(t) ==
    LET k == tasks[t]
        newStatus == determineStatus(k.loc, k.last)
    IN  /\ k.op = "track" /\ k.pc = "detect"
        /\ saveStatus(k.agent, newStatus)
        /\ setBy' = [setBy EXCEPT ![k.agent] = "track"]
        /\ Continue(t, [k EXCEPT
               !.old = IF k.cur = NoStatus THEN "ACTIVE" ELSE k.cur,
               !.new = newStatus,
               !.ret = AfterDetect,
               !.pc = "publishChanged"])
        /\ published' = <<>>
        /\ UNCHANGED <<envVars, eventHandlers, svcVars, locations, states, stats, geoVars,
                       err, calls, accepted, sumDist, geoLast, geoReset, received,
                       subscribed>>

\* detectStatus: the new status, and updateStatus's saveStatus when it differs.
TrackDetect(t) ==
    LET k == tasks[t]
        newStatus == determineStatus(k.loc, k.last)
    IN  /\ k.op = "track" /\ k.pc = "detect"
        /\ IF k.cur # newStatus
           THEN /\ saveStatus(k.agent, newStatus)
                /\ setBy' = [setBy EXCEPT ![k.agent] = "track"]
                /\ Continue(t, [k EXCEPT
                       !.old = IF k.cur = NoStatus THEN "ACTIVE" ELSE k.cur,
                       !.new = newStatus,
                       !.ret = AfterDetect,
                       !.pc = "publishChanged"])
           ELSE /\ Continue(t, [k EXCEPT !.new = newStatus, !.pc = AfterDetect])
                /\ UNCHANGED <<statuses, setBy>>
        /\ published' = <<>>
        /\ UNCHANGED <<envVars, eventHandlers, svcVars, locations, states, stats, geoVars,
                       err, calls, accepted, sumDist, geoLast, geoReset, received,
                       subscribed>>

(***************************************************************************)
(* Status engine: updateStatus after its saveStatus, shared by track,      *)
(* setStatus and the time-driven check                                     *)
(***************************************************************************)
StatusOps == {"track", "setStatus", "forceWatchdogCheck", "check"}

UpdatePublishChanged(t) ==
    LET k == tasks[t] IN
    /\ k.op \in StatusOps /\ k.pc = "publishChanged"
    /\ Publish(t, [k EXCEPT !.pc = "emitGetState"],
               Event("status.changed", k.agent, k.old, k.new, "", 0))
    /\ UNCHANGED <<envVars, eventHandlers, svcVars, storeVars, geoVars, err, calls, histVars>>

UpdateGetState(t) ==
    LET k == tasks[t] IN
    /\ k.op \in StatusOps /\ k.pc = "emitGetState"
    /\ Continue(t, [k EXCEPT !.state = getAgentState(k.agent), !.pc = "emitSpecific"])
    /\ published' = <<>>
    /\ UNCHANGED <<envVars, eventHandlers, svcVars, storeVars, geoVars, err, calls, histVars>>

UpdateEmitSpecific(t) ==
    LET k == tasks[t]
        types == specificEvents(k.old, k.new)
        k2 == [k EXCEPT !.trace = @ \o types]
    IN  /\ k.op \in StatusOps /\ k.pc = "emitSpecific"
        /\ published' = [i \in 1..Len(types) |->
                             publishEvent(Event(types[i], k.agent, k.old, k.new, "", 0))]
        /\ IF types # <<>> /\ publishRejects THEN Throw(t, k2)
           ELSE IF k.ret = "done" THEN FinishAs(t, k2)
           ELSE Continue(t, [k2 EXCEPT !.pc = k.ret])
        /\ UNCHANGED <<envVars, eventHandlers, svcVars, storeVars, geoVars, err, calls, histVars>>

(***************************************************************************)
(* Geofence engine                                                         *)
(***************************************************************************)
IndexOf(seq, x) == CHOOSE i \in 1..Len(seq) : seq[i] = x
\* A deletion that deletes nothing.
WithoutNothing(seq, x) == seq

Without(seq, x) == SelectSeq(seq, LAMBDA y : y # x)

\* Array.from(geofences.values()): the zones in the order they were inserted.
getGeofences ==
    [i \in 1..Len(geoOrder) |-> [id |-> geoOrder[i], geofence |-> geofences[geoOrder[i]]]]

getAgentGeofences(a) == {z \in agentGeofences[a].ids : geofences[z].has}

\* currentGeofences of a checkGeofences in flight: the agent's set object in
\* the map while it is still the one the call read, else the call's own copy.
CurrentGeofences(k) == IF k.live THEN agentGeofences[k.agent].ids ELSE k.curGeo

\* The map entry of agent a is replaced or deleted: the checks of a in flight
\* keep the set object they read.
Detached(ts, a) ==
    [u \in TaskIds |->
        IF ts[u].op = "track" /\ ts[u].agent = a /\ ts[u].pc = "geoLoop" /\ ts[u].live
        THEN [ts[u] EXCEPT !.live = FALSE, !.curGeo = agentGeofences[a].ids]
        ELSE ts[u]]

\* A check of the geofences that forgets where the agent is.
setAgentGeofencesForgotten(a, newGeofences) ==
    [agentGeofences EXCEPT ![a] = [has |-> TRUE, ids |-> {}]]

\* agentGeofences.set(agentId, newGeofences).
setAgentGeofences(a, newGeofences) ==
    [agentGeofences EXCEPT ![a] = [has |-> TRUE, ids |-> newGeofences]]

\* The loop of checkGeofences from entry i of the map up to its next await
\* (an enter or exit event) or to its end.
RECURSIVE GeoScan(_, _, _, _)
GeoScan(location, cur, i, newGeo) ==
    IF i > Len(geoOrder)
    THEN [end |-> TRUE, pos |-> i, newGeo |-> newGeo, type |-> "", zone |-> ""]
    ELSE LET z == geoOrder[i]
             isInside == isPointInGeofence(location.lat, location.lon, geofences[z])
         IN  IF isInside
             THEN IF z \notin cur
                  THEN [end |-> FALSE, pos |-> i + 1, newGeo |-> newGeo \cup {z},
                        type |-> "agent.entered-geofence", zone |-> z]
                  ELSE GeoScan(location, cur, i + 1, newGeo \cup {z})
             ELSE IF z \in cur
                  THEN [end |-> FALSE, pos |-> i + 1, newGeo |-> newGeo,
                        type |-> "agent.exited-geofence", zone |-> z]
                  ELSE GeoScan(location, cur, i + 1, newGeo)

\* checkGeofences: its start, or its resumption after an event was published.
CheckGeofences(t) ==
    LET k == tasks[t]
        start == k.pc = "checkGeofences"
        live == IF start THEN agentGeofences[k.agent].has ELSE k.live
        cur == IF start THEN agentGeofences[k.agent].ids ELSE CurrentGeofences(k)
        r == GeoScan(k.loc, cur, IF start THEN 1 ELSE k.pos, IF start THEN {} ELSE k.newGeo)
        k2 == [k EXCEPT !.live = live, !.curGeo = IF live THEN {} ELSE cur,
                        !.newGeo = r.newGeo, !.pos = r.pos]
    IN  /\ k.op = "track" /\ k.pc \in {"checkGeofences", "geoLoop"}
        /\ IF r.end
           THEN /\ agentGeofences' = setAgentGeofences(k.agent, r.newGeo)
                /\ tasks' = [Detached(tasks, k.agent) EXCEPT ![t] =
                       [k2 EXCEPT !.pc = "getState", !.live = FALSE, !.curGeo = {}]]
                /\ published' = <<>>
                /\ UNCHANGED <<done, geoLast, geoReset>>
           ELSE /\ Publish(t, [k2 EXCEPT !.pc = "geoLoop"],
                           Event(r.type, k.agent, NoStatus, NoStatus, r.zone, 0))
                /\ geoLast' = [geoLast EXCEPT ![k.agent][r.zone] = r.type]
                /\ geoReset' = [geoReset EXCEPT ![k.agent][r.zone] = FALSE]
                /\ UNCHANGED agentGeofences
        /\ UNCHANGED <<envVars, eventHandlers, svcVars, storeVars, geofences, geoOrder, err, calls,
                       accepted, sumDist, setBy, received, subscribed>>

registerGeofence(z, g) ==
    /\ CanStart
    /\ IF ~ensureInitialized THEN Rejected("NotInitialized")
       ELSE IF ~validateGeofence(g) THEN Rejected("InvalidInput")
       ELSE /\ geofences' = [geofences EXCEPT ![z] = g]
            /\ geoOrder' = IF geofences[z].has THEN geoOrder ELSE Append(geoOrder, z)
            /\ err' = "none"
            /\ published' = <<>>
            /\ calls' = calls + 1
            /\ done' = [DoneSync("registerGeofence", z) EXCEPT !.before = getGeofences]
            /\ UNCHANGED <<envVars, eventHandlers, svcVars, storeVars, agentGeofences, tasks, histVars>>

\* A removal that leaves the sets of the agents as they are.
deleteFromAgentsNone(z) == agentGeofences

\* The loop of removeGeofence: the id is deleted from the set of every agent.
deleteFromAgents(z) ==
    [a \in Agents |-> [agentGeofences[a] EXCEPT !.ids = @ \ {z}]]

removeGeofence(z) ==
    /\ CanStart
    /\ IF ~ensureInitialized THEN Rejected("NotInitialized")
       ELSE /\ geofences' = [geofences EXCEPT ![z] = NoGeofence]
            /\ geoOrder' = Without(geoOrder, z)
            /\ agentGeofences' = deleteFromAgents(z)
            /\ tasks' = [u \in TaskIds |->
                   IF /\ tasks[u].op = "track" /\ tasks[u].pc = "geoLoop"
                      /\ geofences[z].has /\ IndexOf(geoOrder, z) < tasks[u].pos
                   THEN [tasks[u] EXCEPT !.pos = @ - 1]
                   ELSE tasks[u]]
            /\ err' = "none"
            /\ published' = <<>>
            /\ calls' = calls + 1
            /\ done' = IF done.op = "registerGeofence" /\ done.arg = z
                       THEN [DoneSync("removeGeofence", z) EXCEPT
                                !.before = done.before, !.undoes = TRUE]
                       ELSE DoneSync("removeGeofence", z)
            /\ geoReset' = [a \in Agents |->
                   [geoReset[a] EXCEPT ![z] = @ \/ z \in agentGeofences[a].ids]]
            /\ UNCHANGED <<envVars, eventHandlers, svcVars, storeVars, accepted,
                           sumDist, geoLast, setBy, received, subscribed>>

(***************************************************************************)
(* The service: the snapshot at the end of track                           *)
(***************************************************************************)
\* updateAgentState: the read of the current snapshot.
TrackGetState(t) ==
    LET k == tasks[t] IN
    /\ k.op = "track" /\ k.pc = "getState"
    /\ Continue(t, [k EXCEPT !.state = getAgentState(k.agent), !.pc = "saveState"])
    /\ published' = <<>>
    /\ UNCHANGED <<envVars, eventHandlers, svcVars, storeVars, geoVars, err, calls, histVars>>

\* A snapshot that reports no zone.
updateAgentStateNoZones(k) ==
    [has |-> TRUE,
     status |-> k.new,
     lastLocation |-> k.loc,
     lastUpdate |-> clock,
     lastMovement |-> IF k.loc.speed # NoSpeed /\ k.loc.speed > 0
                      THEN clock ELSE k.state.lastMovement,
     totalDistanceTraveled |-> k.state.totalDistanceTraveled,
     activeGeofences |-> {}]

\* A snapshot that keeps the location it had.
updateAgentStateKeepLocation(k) ==
    [has |-> TRUE,
     status |-> k.new,
     lastLocation |-> k.state.lastLocation,
     lastUpdate |-> clock,
     lastMovement |-> IF k.loc.speed # NoSpeed /\ k.loc.speed > 0
                      THEN clock ELSE k.state.lastMovement,
     totalDistanceTraveled |-> k.state.totalDistanceTraveled,
     activeGeofences |-> getAgentGeofences(k.agent)]

updateAgentState(k) ==
    [has |-> TRUE,
     status |-> k.new,
     lastLocation |-> k.loc,
     lastUpdate |-> clock,
     lastMovement |-> IF k.loc.speed # NoSpeed /\ k.loc.speed > 0
                      THEN clock ELSE k.state.lastMovement,
     totalDistanceTraveled |-> k.state.totalDistanceTraveled,
     activeGeofences |-> getAgentGeofences(k.agent)]

\* updateAgentState: the new snapshot and saveAgentState; track returns.
TrackSaveState(t) ==
    LET k == tasks[t] IN
    /\ k.op = "track" /\ k.pc = "saveState"
    /\ saveAgentState(k.agent, updateAgentState(k))
    /\ Finish(t)
    /\ published' = <<>>
    /\ UNCHANGED <<envVars, eventHandlers, svcVars, locations, statuses, stats, geoVars, err, calls,
                   histVars>>

(***************************************************************************)
(* setStatus                                                               *)
(***************************************************************************)
SetStatusCall(t, a, status) ==
    /\ CanStart
    /\ FreeSlot(t)
    /\ IF ~ensureInitialized THEN Rejected("NotInitialized")
       ELSE /\ Begin(t, [IdleTask EXCEPT
                   !.op = "setStatus", !.pc = "decide", !.agent = a,
                   !.status = status, !.cur = getStatus(a), !.prior = statuses[a]])
            /\ UNCHANGED <<envVars, eventHandlers, svcVars, storeVars, geoVars, histVars>>

\* A setStatus that reports every transition as one from OFFLINE.
SetStatusDecideFromOffline(t) ==
    LET k == tasks[t] IN
    /\ k.op = "setStatus" /\ k.pc = "decide"
    /\ IF k.cur # k.status
       THEN /\ saveStatus(k.agent, k.status)
            /\ setBy' = [setBy EXCEPT ![k.agent] = "setStatus"]
            /\ Continue(t, [k EXCEPT
                   !.old = "OFFLINE",
                   !.new = k.status, !.ret = "done", !.pc = "publishChanged"])
       ELSE /\ Finish(t)
            /\ UNCHANGED <<statuses, setBy>>
    /\ published' = <<>>
    /\ UNCHANGED <<envVars, eventHandlers, svcVars, locations, states, stats, geoVars, err, calls,
                   accepted, sumDist, geoLast, geoReset, received, subscribed>>

SetStatusDecide(t) ==
    LET k == tasks[t] IN
    /\ k.op = "setStatus" /\ k.pc = "decide"
    /\ IF k.cur # k.status
       THEN /\ saveStatus(k.agent, k.status)
            /\ setBy' = [setBy EXCEPT ![k.agent] = "setStatus"]
            /\ Continue(t, [k EXCEPT
                   !.old = IF k.cur = NoStatus THEN "OFFLINE" ELSE k.cur,
                   !.new = k.status, !.ret = "done", !.pc = "publishChanged"])
       ELSE /\ Finish(t)
            /\ UNCHANGED <<statuses, setBy>>
    /\ published' = <<>>
    /\ UNCHANGED <<envVars, eventHandlers, svcVars, locations, states, stats, geoVars, err, calls,
                   accepted, sumDist, geoLast, geoReset, received, subscribed>>

(***************************************************************************)
(* Watchdog engine                                                         *)
(***************************************************************************)
\* A start that sets an interval whether or not one is running.
startAgain ==
    IF ~cfg.watchdogEnabled
    THEN UNCHANGED <<isRunning, nextTick, timers>>
    ELSE /\ isRunning' = TRUE
         /\ timers' = timers + 1
         /\ nextTick' = clock + cfg.checkInterval

\* WatchdogEngine.start: nothing when it runs already or is disabled, else
\* setInterval(performCheck, checkInterval).
start ==
    IF isRunning \/ ~cfg.watchdogEnabled
    THEN UNCHANGED <<isRunning, nextTick, timers>>
    ELSE /\ isRunning' = TRUE
         /\ timers' = timers + 1
         /\ nextTick' = clock + cfg.checkInterval

\* WatchdogEngine.stop: nothing when it does not run, else clearInterval of
\* the interval it holds.
stop ==
    IF ~isRunning
    THEN UNCHANGED <<isRunning, timers>>
    ELSE /\ isRunning' = FALSE
         /\ timers' = IF timers > 0 THEN timers - 1 ELSE 0

\* A call of start on the engine itself.
WatchdogStartCall ==
    /\ CanStart
    /\ start
    /\ err' = "none"
    /\ published' = <<>>
    /\ calls' = calls + 1
    /\ done' = DoneSync("watchdog.start", IF isRunning THEN "again" ELSE "first")
    /\ UNCHANGED <<envVars, eventHandlers, initialized, storeVars, geoVars, tasks,
                   histVars>>

\* A call of stop on the engine itself.
WatchdogStopCall ==
    /\ CanStart
    /\ stop
    /\ err' = "none"
    /\ published' = <<>>
    /\ calls' = calls + 1
    /\ done' = DoneSync("watchdog.stop", IF isRunning THEN "first" ELSE "again")
    /\ UNCHANGED <<envVars, eventHandlers, initialized, nextTick, storeVars, geoVars,
                   tasks, histVars>>

\* checkStatusByTime up to its await: the read of the snapshot.
CheckTask(op, a, parent) ==
    [IdleTask EXCEPT !.op = op, !.pc = "evaluate", !.agent = a,
                     !.state = getAgentState(a), !.parent = parent,
                     !.prior = statuses[a], !.priorBy = setBy[a]]

\* checkStatusByTime after the read: the status by elapsed time, and
\* updateStatus's saveStatus when it differs from the snapshot's.
CheckEvaluate(t) ==
    LET k == tasks[t]
        newStatus == timeStatus(k.state, clock)
    IN  /\ k.op \in {"forceWatchdogCheck", "check"} /\ k.pc = "evaluate"
        /\ IF k.state.has /\ k.state.lastUpdate # 0 /\ k.state.status # newStatus
           THEN /\ saveStatus(k.agent, newStatus)
                /\ setBy' = [setBy EXCEPT ![k.agent] = "watchdog"]
                /\ Continue(t, [k EXCEPT !.old = k.state.status, !.new = newStatus,
                                         !.ret = "done", !.pc = "publishChanged"])
           ELSE /\ Finish(t)
                /\ UNCHANGED <<statuses, setBy>>
        /\ published' = <<>>
        /\ UNCHANGED <<envVars, eventHandlers, svcVars, locations, states, stats,
                       geoVars, err, calls, accepted, sumDist, geoLast, geoReset,
                       received, subscribed>>

ForceCheckCall(t, a) ==
    /\ CanStart
    /\ FreeSlot(t)
    /\ IF ~ensureInitialized THEN Rejected("NotInitialized")
       ELSE /\ Begin(t, CheckTask("forceWatchdogCheck", a, 0))
            /\ UNCHANGED <<envVars, eventHandlers, svcVars, storeVars, geoVars, histVars>>

\* performCheck up to its await: the read of the agents.
SweepTask(op) ==
    [IdleTask EXCEPT !.op = op, !.pc = "spawn", !.agents = getAllAgents]

\* The interval fires, every checkInterval while the watchdog runs.
Tick(t) ==
    /\ timers > 0
    /\ clock >= nextTick
    /\ conc \/ Idle
    /\ FreeSlot(t)
    /\ nextTick' = nextTick + cfg.checkInterval
    /\ tasks' = [tasks EXCEPT ![t] = SweepTask("performCheck")]
    /\ published' = <<>>
    /\ UNCHANGED <<envVars, eventHandlers, initialized, isRunning, timers, storeVars, geoVars,
                   err, calls, done, histVars>>

ForceCheckAllCall(t) ==
    /\ CanStart
    /\ FreeSlot(t)
    /\ IF ~ensureInitialized THEN Rejected("NotInitialized")
       ELSE /\ Begin(t, SweepTask("forceWatchdogCheckAll"))
            /\ UNCHANGED <<envVars, eventHandlers, svcVars, storeVars, geoVars, histVars>>

\* performCheck after the read: one checkAgent per agent, all started at once.
SweepSpawn(t) ==
    LET k == tasks[t]
        free == {u \in TaskIds : tasks[u].op = "idle"}
    IN  /\ k.op \in {"performCheck", "forceWatchdogCheckAll"} /\ k.pc = "spawn"
        /\ Cardinality(free) >= Cardinality(k.agents)
        /\ LET slot == CHOOSE f \in [k.agents -> free] :
                           \A a, b \in k.agents : a # b => f[a] # f[b]
           IN  tasks' = [u \in TaskIds |->
                   IF u = t THEN [k EXCEPT !.pc = "join"]
                   ELSE IF \E a \in k.agents : slot[a] = u
                        THEN CheckTask("check", CHOOSE a \in k.agents : slot[a] = u, t)
                        ELSE tasks[u]]
        /\ published' = <<>>
        /\ UNCHANGED <<envVars, eventHandlers, svcVars, storeVars, geoVars, err, calls,
                       done, histVars>>

\* Promise.allSettled: performCheck returns once every check has.
SweepJoin(t) ==
    LET k == tasks[t] IN
    /\ k.op \in {"performCheck", "forceWatchdogCheckAll"} /\ k.pc = "join"
    /\ \A u \in TaskIds : tasks[u].parent # t
    /\ Finish(t)
    /\ published' = <<>>
    /\ UNCHANGED <<envVars, eventHandlers, svcVars, storeVars, geoVars, err, calls,
                   histVars>>

(***************************************************************************)
(* clearAgentData                                                          *)
(***************************************************************************)
ClearCall(t, a) ==
    /\ CanStart
    /\ FreeSlot(t)
    /\ IF ~ensureInitialized THEN Rejected("NotInitialized")
       ELSE /\ clearAgentData(a)
            /\ Begin(t, [IdleTask EXCEPT !.op = "clearAgentData",
                                         !.pc = "clearGeofences", !.agent = a,
                                         !.prior = statuses[a]])
            /\ accepted' = [accepted EXCEPT ![a] = 0]
            /\ sumDist' = [sumDist EXCEPT ![a] = 0]
            /\ received' = [received EXCEPT ![a] = 0]
            /\ UNCHANGED <<envVars, eventHandlers, svcVars, geoVars, geoLast, geoReset, setBy,
                           subscribed>>

\* geoEngine.clearAgentGeofences, then clearAgentData returns.
ClearGeofences(t) ==
    LET k == tasks[t] IN
    /\ k.op = "clearAgentData" /\ k.pc = "clearGeofences"
    /\ agentGeofences' = [agentGeofences EXCEPT ![k.agent] = NoAgentGeofences]
    /\ tasks' = [Detached(tasks, k.agent) EXCEPT ![t] = IdleTask]
    /\ done' = DoneOf(k)
    /\ geoReset' = [geoReset EXCEPT ![k.agent] =
           [z \in Zones |-> @[z] \/ z \in agentGeofences[k.agent].ids]]
    /\ published' = <<>>
    /\ UNCHANGED <<envVars, eventHandlers, svcVars, storeVars, geofences, geoOrder,
                   err, calls, accepted, sumDist, geoLast, setBy, received, subscribed>>

(***************************************************************************)
(* initialize and shutdown                                                 *)
(***************************************************************************)
InitializeCall(t) ==
    /\ CanStart
    /\ FreeSlot(t)
    /\ IF initialized
       THEN /\ err' = "none"
            /\ published' = <<>>
            /\ calls' = calls + 1
            /\ done' = DoneSync("initialize", "already")
            /\ UNCHANGED tasks
       ELSE Begin(t, [IdleTask EXCEPT !.op = "initialize", !.pc = "start"])
    /\ UNCHANGED <<envVars, eventHandlers, svcVars, storeVars, geoVars, histVars>>

\* After storage.initialize: watchdogEngine.start and initialized = true.
InitializeStart(t) ==
    LET k == tasks[t] IN
    /\ k.op = "initialize" /\ k.pc = "start"
    /\ IF cfg.watchdogEnabled THEN start ELSE UNCHANGED <<isRunning, nextTick, timers>>
    /\ initialized' = TRUE
    /\ Finish(t)
    /\ published' = <<>>
    /\ UNCHANGED <<envVars, eventHandlers, storeVars, geoVars, err, calls, histVars>>

\* watchdogEngine.stop and storage.disconnect.
ShutdownCall(t) ==
    /\ CanStart
    /\ FreeSlot(t)
    /\ stop
    /\ disconnect
    /\ Begin(t, [IdleTask EXCEPT
           !.op = "shutdown", !.pc = "end",
           !.status = IF ~initialized /\ done.op = "shutdown" THEN "again" ELSE "first"])
    /\ accepted' = [a \in Agents |-> 0]
    /\ sumDist' = [a \in Agents |-> 0]
    /\ received' = [a \in Agents |-> 0]
    /\ subscribed' = <<>>
    /\ UNCHANGED <<envVars, initialized, nextTick, geoVars, geoLast, geoReset, setBy>>

\* A shutdown that flips the flag instead of clearing it.
ShutdownEndFlipped(t) ==
    LET k == tasks[t] IN
    /\ k.op = "shutdown" /\ k.pc = "end"
    /\ initialized' = ~initialized
    /\ Finish(t)
    /\ published' = <<>>
    /\ UNCHANGED <<envVars, eventHandlers, isRunning, nextTick, timers, storeVars, geoVars,
                   err, calls, histVars>>

ShutdownEnd(t) ==
    LET k == tasks[t] IN
    /\ k.op = "shutdown" /\ k.pc = "end"
    /\ initialized' = FALSE
    /\ Finish(t)
    /\ published' = <<>>
    /\ UNCHANGED <<envVars, eventHandlers, isRunning, nextTick, timers, storeVars, geoVars,
                   err, calls, histVars>>

(***************************************************************************)
(* Subscriptions and the read-only operations                              *)
(***************************************************************************)
SubscribeCall(handler) ==
    /\ CanStart
    /\ IF ~ensureInitialized THEN Rejected("NotInitialized")
       ELSE /\ eventHandlers' = Append(eventHandlers, handler)
            /\ subscribed' = Append(subscribed, handler)
            /\ err' = "none"
            /\ published' = <<>>
            /\ calls' = calls + 1
            /\ done' = DoneSync("subscribeEvents", handler)
            /\ UNCHANGED <<envVars, svcVars, storeVars, geoVars, tasks, accepted, sumDist,
                           geoLast, geoReset, setBy, received>>

\* An unsubscribeEvents that drops no handler.
UnsubscribeCallKept ==
    /\ CanStart
    /\ IF ~ensureInitialized THEN Rejected("NotInitialized")
       ELSE /\ eventHandlers' = eventHandlers
            /\ subscribed' = <<>>
            /\ err' = "none"
            /\ published' = <<>>
            /\ calls' = calls + 1
            /\ done' = DoneSync("unsubscribeEvents", "")
            /\ UNCHANGED <<envVars, svcVars, storeVars, geoVars, tasks, accepted, sumDist,
                           geoLast, geoReset, setBy, received>>

UnsubscribeCall ==
    /\ CanStart
    /\ IF ~ensureInitialized THEN Rejected("NotInitialized")
       ELSE /\ eventHandlers' = <<>>
            /\ subscribed' = <<>>
            /\ err' = "none"
            /\ published' = <<>>
            /\ calls' = calls + 1
            /\ done' = IF done.op = "unsubscribeEvents"
                       THEN [DoneSync("unsubscribeEvents", "again") EXCEPT
                                !.before = done.before]
                       ELSE [DoneSync("unsubscribeEvents", "first") EXCEPT
                                !.before = eventHandlers]
            /\ UNCHANGED <<envVars, svcVars, storeVars, geoVars, tasks, accepted, sumDist,
                           geoLast, geoReset, setBy, received>>

Getters ==
    {"getLocation", "getStatus", "getAgentState", "getAllAgents", "getGeofences",
     "getAgentGeofences", "getAgentStats", "getDistanceBetweenAgents"}

GetCall(op) ==
    /\ CanStart
    /\ IF ~ensureInitialized THEN Rejected("NotInitialized")
       ELSE /\ err' = "none"
            /\ published' = <<>>
            /\ calls' = calls + 1
            /\ UNCHANGED <<envVars, eventHandlers, svcVars, storeVars, geoVars, tasks,
                           done, histVars>>

(***************************************************************************)
(* Time                                                                    *)
(***************************************************************************)
\* Time passes, up to the next firing of the interval.
AdvanceTime(d) ==
    /\ clock + d <= deadline
    /\ timers > 0 => clock + d <= nextTick
    /\ conc \/ Idle
    /\ clock' = clock + d
    /\ published' = <<>>
    /\ UNCHANGED <<cfg, conc, budget, deadline, eventHandlers, svcVars, storeVars,
                   geoVars, tasks, err, calls, done, histVars>>

(***************************************************************************)
(* Inputs                                                                  *)
(***************************************************************************)
InvalidLatitude == MaxLatitude + 1000
InvalidLongitude == MaxLongitude + 1000

\* Inputs of track with one invalid part each: the agent id, the latitude,
\* or the longitude.
InvalidInputs ==
    ({"", NonString} \X {0} \X {0})
    \cup (Agents \X {NaN, InvalidLatitude, -InvalidLatitude} \X {0})
    \cup (Agents \X {0} \X {NaN, InvalidLongitude, -InvalidLongitude})
PastTime == StartTime - 1000
FutureTime == StartTime + FutureSlack
Latitudes == {0, 1, 2}

ZoneNear == CircularGeofence(0, 0, 150, TRUE)
ZoneFar == CircularGeofence(2, 0, 50, TRUE)
ZoneInvalid == CircularGeofence(0, 0, 0, TRUE)
ZoneUnnamed == CircularGeofence(0, 0, 150, FALSE)
ZoneOutside == CircularGeofence(InvalidLatitude, 0, 150, TRUE)
ZoneNaN == CircularGeofence(NaN, 0, 150, TRUE)
ZonePolygon == PolygonGeofence(<<Vertex(-1, -1), Vertex(-1, 1), Vertex(1, 0)>>, TRUE)
ZoneTwoVertices == PolygonGeofence(<<Vertex(-1, -1), Vertex(1, 0)>>, TRUE)
ZoneBadVertex ==
    PolygonGeofence(<<Vertex(-1, -1), Vertex(-1, 1), Vertex(InvalidLatitude, 0)>>, TRUE)
ZoneInputs ==
    {ZoneNear, ZoneFar, ZonePolygon, ZoneInvalid, ZoneUnnamed, ZoneOutside, ZoneNaN,
     ZoneTwoVertices, ZoneBadVertex}

DefaultConfig == Config(1000, 1000, 2000, TRUE, 3000, TRUE)

(***************************************************************************)
(* The calls of the clients and the steps of the calls in flight           *)
(***************************************************************************)
Track(agents, lats, timestamps) ==
    \E t \in TaskIds, a \in agents, lat \in lats, timestamp \in timestamps :
        TrackCall(t, a, lat, 0, timestamp)
TrackInvalid ==
    \E t \in TaskIds, i \in InvalidInputs : TrackCall(t, i[1], i[2], i[3], 0)
SetStatus(agents, sts) ==
    \E t \in TaskIds, a \in agents, status \in sts : SetStatusCall(t, a, status)
Register(zones, geometries) ==
    \E z \in zones, g \in geometries : registerGeofence(z, g)
Remove(zones) == \E z \in zones : removeGeofence(z)
Clear(agents) == \E t \in TaskIds, a \in agents : ClearCall(t, a)
ForceCheck(agents) == \E t \in TaskIds, a \in agents : ForceCheckCall(t, a)
ForceCheckAll == \E t \in TaskIds : ForceCheckAllCall(t)
Ticks == \E t \in TaskIds : Tick(t)
Initialize == \E t \in TaskIds : InitializeCall(t)
Shutdown == \E t \in TaskIds : ShutdownCall(t)
Get == \E op \in Getters : GetCall(op)
Subscribe(handlers) == \E handler \in handlers : SubscribeCall(handler)
Advance == \E d \in Delays : AdvanceTime(d)

TrackSteps ==
    \E t \in TaskIds :
        \/ TrackSaveLocation(t)
        \/ TrackPublishLocation(t)
        \/ TrackGetStatus(t)
        \/ TrackGetLastLocation(t)
        \/ TrackDetect(t)
        \/ CheckGeofences(t)
        \/ TrackGetState(t)
        \/ TrackSaveState(t)

StatusSteps ==
    \E t \in TaskIds :
        \/ UpdatePublishChanged(t)
        \/ UpdateGetState(t)
        \/ UpdateEmitSpecific(t)

WatchdogSteps ==
    \E t \in TaskIds :
        \/ CheckEvaluate(t)
        \/ SweepSpawn(t)
        \/ SweepJoin(t)

CheckSteps == \E t \in TaskIds : CheckEvaluate(t)
InitializeSteps == \E t \in TaskIds : InitializeStart(t)
ShutdownSteps == \E t \in TaskIds : ShutdownEnd(t)
SetStatusSteps == \E t \in TaskIds : SetStatusDecide(t)
ClearSteps == \E t \in TaskIds : ClearGeofences(t)

Next ==
    \/ Initialize
    \/ Shutdown
    \/ InitializeSteps
    \/ ShutdownSteps
    \/ Track(Agents, Latitudes \cup {InvalidLatitude}, {0})
    \/ TrackSteps
    \/ StatusSteps
    \/ SetStatus(Agents, {"OFFLINE", "ACTIVE"})
    \/ SetStatusSteps
    \/ Register(Zones, {ZoneNear, ZoneFar, ZoneInvalid})
    \/ Remove(Zones)
    \/ Clear(Agents)
    \/ ClearSteps
    \/ ForceCheck(Agents)
    \/ ForceCheckAll
    \/ Ticks
    \/ WatchdogSteps
    \/ Subscribe({"returns"})
    \/ UnsubscribeCall
    \/ Get
    \/ Advance

Init == InitWith({DefaultConfig}, FALSE, MaxCalls, MaxTime)
Spec == Init /\ [][Next]_vars

(***************************************************************************)
(* Geofencing in depth: two zones of fixed geometry, no watchdog            *)
(***************************************************************************)
GeoConfig == Config(1000, 1000, 2000, FALSE, 3000, TRUE)

GeoNext ==
    \/ Initialize
    \/ InitializeSteps
    \/ Track(Agents, {0, 2}, {0})
    \/ TrackSteps
    \/ StatusSteps
    \/ Register({"z1"}, {ZoneNear})
    \/ Register({"z2"}, {ZoneFar})
    \/ Remove(Zones)
    \/ Clear(Agents)
    \/ ClearSteps

GeoInit == InitWith({GeoConfig}, FALSE, GeoCalls, 0)
GeoSpec == GeoInit /\ [][GeoNext]_vars

(***************************************************************************)
(* The stored data in depth: two agents, accepted and rejected samples     *)
(***************************************************************************)
DataNext ==
    \/ Initialize
    \/ InitializeSteps
    \/ Track(Agents, {0, 1, InvalidLatitude}, {0, PastTime})
    \/ TrackInvalid
    \/ TrackSteps
    \/ StatusSteps
    \/ Register({"z1"}, {ZoneNear})
    \/ Clear(Agents)
    \/ ClearSteps

DataInit == InitWith({GeoConfig}, FALSE, DataCalls, 0)
DataSpec == DataInit /\ [][DataNext]_vars

(***************************************************************************)
(* The snapshot over time: samples that carry their own timestamps, past   *)
(* and future, while time passes                                           *)
(***************************************************************************)
SnapNext ==
    \/ Initialize
    \/ InitializeSteps
    \/ Track(Agents, {0, 1}, {0, PastTime, FutureTime})
    \/ TrackSteps
    \/ StatusSteps
    \/ Advance

SnapInit == InitWith({GeoConfig}, FALSE, SnapCalls, SnapTime)
SnapSpec == SnapInit /\ [][SnapNext]_vars

(***************************************************************************)
(* The subscribers: handlers that return, throw or reject are subscribed   *)
(* and dropped while an agent is tracked, set and checked                  *)
(***************************************************************************)
EventNext ==
    \/ Initialize
    \/ InitializeSteps
    \/ Subscribe(Handlers)
    \/ UnsubscribeCall
    \/ Shutdown
    \/ ShutdownSteps
    \/ Track({"a1"}, {0, 1}, {0})
    \/ TrackSteps
    \/ StatusSteps
    \/ SetStatus({"a1"}, {"OFFLINE"})
    \/ SetStatusSteps
    \/ ForceCheck({"a1"})
    \/ CheckSteps
    \/ Advance

EventInit == InitWith({GeoConfig}, FALSE, EventCalls, EventTime)
EventSpec == EventInit /\ [][EventNext]_vars

(***************************************************************************)
(* Overlapping calls: a client makes its next call for an agent while the  *)
(* steps of its earlier ones are still to run                              *)
(***************************************************************************)
ConcNext ==
    \/ Initialize
    \/ InitializeSteps
    \/ Track({"a1"}, {0, 1}, {0})
    \/ TrackSteps
    \/ StatusSteps
    \/ ForceCheck({"a1"})
    \/ CheckSteps
    \/ Advance

ConcInit == InitWith({GeoConfig}, TRUE, ConcCalls, ConcTime)
ConcSpec == ConcInit /\ [][ConcNext]_vars

(***************************************************************************)
(* The status of one agent: samples, manual overrides to every status and  *)
(* forced checks, while time passes                                        *)
(***************************************************************************)
StatusNext ==
    \/ Initialize
    \/ InitializeSteps
    \/ Track({"a1"}, {0, 1}, {0})
    \/ TrackSteps
    \/ StatusSteps
    \/ SetStatus({"a1"}, AgentStatus)
    \/ SetStatusSteps
    \/ ForceCheck({"a1"})
    \/ CheckSteps
    \/ Advance

StatusInit == InitWith({GeoConfig}, FALSE, StatusCalls, StatusTime)
StatusSpec == StatusInit /\ [][StatusNext]_vars

(***************************************************************************)
(* The registry of zones: circles and polygons, valid and invalid, are     *)
(* registered while an agent is tracked                                    *)
(***************************************************************************)
ZoneNext ==
    \/ Initialize
    \/ InitializeSteps
    \/ Register(Zones, ZoneInputs)
    \/ Track({"a1"}, {0, 2}, {0})
    \/ TrackSteps
    \/ StatusSteps

ZoneInit == InitWith({GeoConfig}, FALSE, ZoneCalls, 0)
ZoneSpec == ZoneInit /\ [][ZoneNext]_vars

(***************************************************************************)
(* The sweeps of the watchdog over two agents, with subscribers that make  *)
(* the publication of a transition fail                                    *)
(***************************************************************************)
SweepNext ==
    \/ Initialize
    \/ InitializeSteps
    \/ Subscribe({"returns", "rejects"})
    \/ Track(Agents, {0}, {0})
    \/ TrackSteps
    \/ StatusSteps
    \/ ForceCheckAll
    \/ Ticks
    \/ WatchdogSteps
    \/ Advance

SweepInit == InitWith({DefaultConfig}, FALSE, SweepCalls, SweepTime)
SweepSpec == SweepInit /\ [][SweepNext]_vars

(***************************************************************************)
(* Zones removed under way: a zone is registered and removed while the     *)
(* tracks of an agent are in flight                                        *)
(***************************************************************************)
UnderwayNext ==
    \/ Initialize
    \/ InitializeSteps
    \/ Register({"z1"}, {ZoneNear})
    \/ Remove({"z1"})
    \/ Track({"a1"}, {0}, {0})
    \/ TrackSteps
    \/ StatusSteps

UnderwayInit == InitWith({GeoConfig}, TRUE, UnderwayCalls, 0)
UnderwaySpec == UnderwayInit /\ [][UnderwayNext]_vars

(***************************************************************************)
(* Shutdown under way: the service is shut down while a track or a sweep   *)
(* of the watchdog is in flight                                            *)
(***************************************************************************)
\* shutdown is called on a service that is initialized.
HaltShutdown == initialized /\ Shutdown

HaltNext ==
    \/ Initialize
    \/ InitializeSteps
    \/ HaltShutdown
    \/ ShutdownSteps
    \/ Track({"a1"}, {0}, {0})
    \/ TrackSteps
    \/ StatusSteps
    \/ Ticks
    \/ WatchdogSteps
    \/ Advance

HaltInit == InitWith({DefaultConfig}, TRUE, HaltCalls, HaltTime)
HaltSpec == HaltInit /\ [][HaltNext]_vars

(***************************************************************************)
(* Restarts: the service is shut down and initialized again between the    *)
(* tracks of an agent inside a zone                                        *)
(***************************************************************************)
RestartNext ==
    \/ Initialize
    \/ InitializeSteps
    \/ Shutdown
    \/ ShutdownSteps
    \/ Register({"z1"}, {ZoneNear})
    \/ Track({"a1"}, {0}, {0})
    \/ TrackSteps
    \/ StatusSteps

RestartInit == InitWith({GeoConfig}, FALSE, RestartCalls, 0)
RestartSpec == RestartInit /\ [][RestartNext]_vars

(***************************************************************************)
(* Repeated checks: an agent is tracked and checked again and again, one   *)
(* call after the other, while time passes                                 *)
(***************************************************************************)
RepeatInit == InitWith({GeoConfig}, FALSE, RepeatCalls, RepeatTime)
RepeatSpec == RepeatInit /\ [][ConcNext]_vars

(***************************************************************************)
(* Jumps: the samples of one agent lie up to three units apart, with their *)
(* own timestamps or the clock's, while time passes                        *)
(***************************************************************************)
JumpNext ==
    \/ Initialize
    \/ InitializeSteps
    \/ Track({"a1"}, {0, 2, 3}, {0, PastTime})
    \/ TrackSteps
    \/ StatusSteps
    \/ Advance

JumpInit == InitWith({GeoConfig}, FALSE, JumpCalls, JumpTime)
JumpSpec == JumpInit /\ [][JumpNext]_vars

(***************************************************************************)
(* The two triggers of a transition race: forced checks of an agent        *)
(* overlap the samples tracked for it, two calls at a time, without        *)
(* geofencing                                                              *)
(***************************************************************************)
RaceConfig == Config(3000, 500, 2000, FALSE, 3000, FALSE)

RaceTrackSteps ==
    \E t \in TaskIds :
        \/ TrackSaveLocation(t)
        \/ TrackPublishLocation(t)
        \/ TrackGetStatus(t)
        \/ TrackGetLastLocation(t)
        \/ TrackDetect(t)
        \/ TrackGetState(t)
        \/ TrackSaveState(t)

\* A call is made while fewer than RaceOverlap calls are in flight.
RaceRoom == Cardinality({t \in TaskIds : tasks[t].op # "idle"}) < RaceOverlap

RaceTrack == RaceRoom /\ Track({"a1"}, {0, 1}, {0})
RaceCheck == RaceRoom /\ ForceCheck({"a1"})

RaceNext ==
    \/ Initialize
    \/ InitializeSteps
    \/ RaceTrack
    \/ RaceTrackSteps
    \/ StatusSteps
    \/ RaceCheck
    \/ CheckSteps
    \/ Advance

RaceInit == InitWith({RaceConfig}, TRUE, RaceCalls, RaceTime)
RaceSpec == RaceInit /\ [][RaceNext]_vars

(***************************************************************************)
(* The interval of the watchdog: the service is initialized and shut down  *)
(* and the engine started and stopped, with the watchdog enabled or not,   *)
(* while time passes                                                       *)
(***************************************************************************)
WatchNext ==
    \/ Initialize
    \/ InitializeSteps
    \/ Shutdown
    \/ ShutdownSteps
    \/ WatchdogStartCall
    \/ WatchdogStopCall
    \/ SetStatus({"a1"}, {"ACTIVE"})
    \/ SetStatusSteps
    \/ StatusSteps
    \/ Ticks
    \/ WatchdogSteps
    \/ Advance

WatchInit == InitWith({DefaultConfig, GeoConfig}, FALSE, WatchCalls, WatchTime)
WatchSpec == WatchInit /\ [][WatchNext]_vars

(***************************************************************************)
(* The watchdog over time: an agent is tracked and falls silent.  The      *)
(* event loop runs every continuation, the interval fires when it is due,  *)
(* and time passes until the run ends.                                     *)
(***************************************************************************)
LiveConfigs ==
    {Config(3000, unreach, offline, TRUE, interval, TRUE) :
        unreach \in {1000, 2000}, offline \in {3000, 4000}, interval \in {1000, 3000}}

LiveSteps == InitializeSteps \/ TrackSteps \/ StatusSteps \/ WatchdogSteps

LiveNext ==
    \/ Initialize
    \/ Track(Agents, {0}, {0})
    \/ LiveSteps
    \/ Ticks
    \/ Advance

LiveInit == InitWith(LiveConfigs, FALSE, LiveCalls, LiveTime)
LiveSpec ==
    /\ LiveInit
    /\ [][LiveNext]_vars
    /\ WF_vars(LiveSteps)
    /\ WF_vars(Ticks)
    /\ WF_vars(Advance)

(***************************************************************************)
(* Properties                                                              *)
(***************************************************************************)
Entered == "agent.entered-geofence"
Exited == "agent.exited-geofence"
Silent == {"UNREACHABLE", "OFFLINE"}

Completed(op) == Idle /\ done.op = op /\ ~done.failed

\* C1: every status.changed event that is published carries an old status
\* different from its new status, whatever operation publishes it and whether
\* or not the agent had a persisted status.
C1_StatusChangedDiffers ==
    \A i \in 1..Len(published) :
        published[i].type = "status.changed"
            => published[i].oldStatus # published[i].newStatus

\* C2 as stated: for every agent and zone the enter and exit events alternate
\* and begin with an enter, over any sequence of registerGeofence,
\* removeGeofence, track and clearAgentData: an enter never follows an enter,
\* and an exit only follows an enter.
C2_Alternate ==
    [][\A i \in 1..Len(published') :
          LET e == published'[i] IN
          /\ e.type = Entered => geoLast[e.agent][e.zone] # Entered
          /\ e.type = Exited => geoLast[e.agent][e.zone] = Entered]_vars

\* C2 amended: the enter and exit events of an agent and a zone alternate and
\* begin with an enter as long as the engine keeps the membership; after
\* removeGeofence of the zone or clearAgentData of the agent has dropped it
\* (neither publishes an exit) the next event is an enter again.  An exit
\* always follows an enter whose membership was kept.
C2_AlternateBetweenResets ==
    [][\A i \in 1..Len(published') :
          LET e == published'[i] IN
          /\ e.type = Entered =>
                 geoLast[e.agent][e.zone] # Entered \/ geoReset[e.agent][e.zone]
          /\ e.type = Exited =>
                 geoLast[e.agent][e.zone] = Entered /\ ~geoReset[e.agent][e.zone]]_vars

\* An exit is published for an agent that entered the zone earlier, while
\* another zone is registered.
C2_ExitAfterEnter ==
    \E a \in Agents, z \in Zones :
        /\ published = <<Event(Exited, a, NoStatus, NoStatus, z, 0)>>
        /\ geoLast[a][z] = Exited
        /\ ~geoReset[a][z]

\* The registered zones whose geometry contains a location.
ZonesContaining(location) ==
    {z \in Zones : geofences[z].has
                   /\ isPointInGeofence(location.lat, location.lon, geofences[z])}

\* C3 as stated: after every completed track, registerGeofence or
\* removeGeofence, the activeGeofences of every agent's snapshot are exactly
\* the registered zones that contain the agent's stored last location.
C3_SnapshotZones ==
    (Idle /\ done.op \in {"track", "registerGeofence", "removeGeofence"})
        => \A a \in Agents :
               getAgentState(a).has
                   => getAgentState(a).activeGeofences
                          = ZonesContaining(getLastLocation(a))

\* C3 amended: after a completed track, with geofencing enabled, the
\* activeGeofences of the tracked agent's snapshot are exactly the registered
\* zones that contain the sample; registerGeofence and removeGeofence leave
\* the snapshots as they are.
C3_SnapshotZonesAfterTrack ==
    (Completed("track") /\ cfg.geofenceEnabled)
        => /\ getAgentState(done.agent).has
           /\ getAgentState(done.agent).activeGeofences
                  = ZonesContaining(getLastLocation(done.agent))

\* A track has completed inside one registered zone and outside another.
C3_InsideOneOfTwo ==
    /\ Completed("track")
    /\ getAgentState(done.agent).activeGeofences = {"z1"}
    /\ geofences["z2"].has

\* The step is a call of initialize or shutdown.
LifecycleCall ==
    \E t \in TaskIds :
        tasks[t].op = "idle" /\ tasks'[t].op \in {"initialize", "shutdown"}

\* C4: while the service is not initialized (before initialize, or after a
\* shutdown has completed) every call of a public operation other than
\* initialize and shutdown is answered with the not-initialized error and
\* changes no state; the service becomes initialized only when an initialize
\* completes and uninitialized only when a shutdown completes; and while it
\* is uninitialized and at rest the watchdog does not run.
C4_Lifecycle ==
    /\ [][(~initialized /\ calls' = calls + 1 /\ ~LifecycleCall)
             => /\ err' = "NotInitialized"
                /\ UNCHANGED <<svcVars, storeVars, geoVars, eventHandlers, tasks,
                               clock>>]_vars
    /\ [][initialized' # initialized
             => \E t \in TaskIds :
                    /\ tasks'[t].op = "idle"
                    /\ tasks[t].op = IF initialized' THEN "initialize" ELSE "shutdown"]_vars
    /\ [](Idle /\ ~initialized => ~isRunning)

\* A call is refused after the service has run and a shutdown has completed.
C4_RefusedAfterShutdown ==
    /\ Completed("shutdown")
    /\ ~initialized
    /\ nextTick # 0
    /\ err = "NotInitialized"

\* C5: after the first accepted track of an agent without location, status
\* or snapshot, the persisted status and the status of the snapshot are
\* ACTIVE.
C5_FirstTrackActive ==
    (Completed("track") /\ done.fresh)
        => /\ getStatus(done.agent) = "ACTIVE"
           /\ getAgentState(done.agent).status = "ACTIVE"

\* C6: when the watchdog has set the persisted status of an agent to
\* UNREACHABLE or OFFLINE and a sample of the agent is then accepted, after
\* the track the status is ACTIVE or MOVING and the track has published
\* agent.back-online.
C6_BackOnline ==
    (Completed("track") /\ done.prior \in Silent /\ done.priorBy = "watchdog")
        => /\ getStatus(done.agent) \in {"ACTIVE", "MOVING"}
           /\ \E i \in 1..Len(done.trace) : done.trace[i] = "agent.back-online"

\* The agent has been tracked once, no further call will come, and the run
\* lasts long enough for the watchdog to see the silence.
TrackedOnce(a) ==
    /\ Completed("track")
    /\ done.agent = a
    /\ accepted[a] = 1
    /\ calls = budget
    /\ clock + cfg.offlineAfter + cfg.checkInterval <= deadline

UnreachablePublished(a) ==
    \E i \in 1..Len(published) :
        published[i].type = "agent.unreachable" /\ published[i].agent = a

C8_TotalLocations ==
    Idle => \A a \in Agents :
                IF accepted[a] = 0
                THEN ~getAgentStats(a).has
                ELSE /\ getAgentStats(a).has
                     /\ getAgentStats(a).totalLocations = accepted[a]

\* A track has just been rejected for its coordinates, after two samples of
\* an agent were accepted.
C8_RejectedAfterTwo ==
    /\ Idle
    /\ err = "InvalidInput"
    /\ accepted["a1"] = 2
    /\ getAgentStats("a1").totalLocations = 2

\* C9: at rest, the totalDistance of every agent's statistics is the sum of
\* the distanceTraveled of the agent's location.received events.
C9_TotalDistance ==
    Idle => \A a \in Agents :
                getAgentStats(a).has => getAgentStats(a).totalDistance = sumDist[a]

\* Everything the service reports of agent a is absent.
Absent(a) ==
    /\ ~getLastLocation(a).has
    /\ getStatus(a) = NoStatus
    /\ ~getAgentState(a).has
    /\ ~getAgentStats(a).has
    /\ getAgentGeofences(a) = {}

\* The data of agent b is left as it is.
Untouched(b) ==
    /\ locations'[b] = locations[b]
    /\ statuses'[b] = statuses[b]
    /\ states'[b] = states[b]
    /\ stats'[b] = stats[b]
    /\ agentGeofences'[b] = agentGeofences[b]

\* C10: once clearAgentData(a) has completed, location, status, snapshot and
\* statistics of a are absent and a is in no geofence; no step of
\* clearAgentData changes the data of another agent.
C10_Cleared ==
    /\ [](Completed("clearAgentData") => Absent(done.agent))
    /\ [][\A t \in TaskIds, a \in Agents :
              (tasks[t].op = "clearAgentData" /\ tasks[t].agent = a)
              \/ (tasks'[t].op = "clearAgentData" /\ tasks'[t].agent = a)
                  => \A b \in Agents \ {a} : Untouched(b)]_vars

\* clearAgentData has completed for an agent that had a status, while another
\* agent has a location and is inside a zone.
C10_ClearedBesideAnother ==
    /\ Completed("clearAgentData")
    /\ done.prior # NoStatus
    /\ \E b \in Agents \ {done.agent} :
           getLastLocation(b).has /\ getAgentGeofences(b) # {}

\* C11: with the watchdog disabled, at rest the number of location.received
\* events published for an agent equals the number of its accepted samples;
\* a step publishes at most one location.received, and a track that is
\* rejected publishes none.
C11_ReceivedCount ==
    /\ [](~cfg.watchdogEnabled /\ Idle => \A a \in Agents : received[a] = accepted[a])
    /\ [][LET n == Cardinality({i \in 1..Len(published') :
                                  published'[i].type = "location.received"})
          IN /\ n <= 1
             /\ err' \in {"InvalidInput", "NotInitialized"} /\ calls' = calls + 1 => n = 0
             /\ \A a \in Agents :
                    received'[a] > received[a]
                        => /\ received'[a] = received[a] + 1
                           /\ n = 1
                           /\ published'[1].agent = a]_vars

\* Two samples of one agent and one of the other have been accepted and
\* published, and a further track has been rejected.
C11_ThreeReceivedOneRejected ==
    /\ Idle
    /\ err = "InvalidInput"
    /\ received["a1"] = 2
    /\ received["a2"] = 1
    /\ accepted["a1"] = 2

\* The track in slot t returns in this step, after an earlier sample of its
\* agent.
SecondSampleDone(t) ==
    /\ tasks[t].op = "track"
    /\ tasks[t].pc = "saveState"
    /\ tasks'[t].op = "idle"
    /\ tasks[t].prev.has

\* The snapshot that is read once the track in slot t has returned holds the
\* coordinates of its sample.
SnapshotHoldsSample(t) ==
    /\ states'[tasks[t].agent].has
    /\ states'[tasks[t].agent].lastLocation.lat = tasks[t].lat
    /\ states'[tasks[t].agent].lastLocation.lon = tasks[t].lon

\* C12 as stated: for two samples s1, s2 of an agent accepted one after the
\* other, whatever valid timestamps they carry, the snapshot after track(s2)
\* has the coordinates of s2 and a lastUpdate that is not before the
\* timestamp of s1.
C12_SnapshotAfterSecond ==
    [][\A t \in TaskIds :
          SecondSampleDone(t)
              => /\ SnapshotHoldsSample(t)
                 /\ states'[tasks[t].agent].lastUpdate >= tasks[t].prev.ts]_vars

\* C12 amended: the snapshot after track(s2) has the coordinates of s2, and
\* its lastUpdate is the time at which it was written: it is not before the
\* timestamp of s1 when that timestamp is not later than the time of
\* writing, and it is before it when s1 carries a timestamp still in the
\* future.
C12_SnapshotAfterSecondByClock ==
    [][\A t \in TaskIds :
          SecondSampleDone(t)
              => /\ SnapshotHoldsSample(t)
                 /\ states'[tasks[t].agent].lastUpdate = clock
                 /\ (tasks[t].prev.ts <= clock
                        <=> states'[tasks[t].agent].lastUpdate
                               >= tasks[t].prev.ts)]_vars

\* A second sample of an agent has been tracked after time has passed, at
\* another place than the first, with a timestamp in the past.
C12_SecondSampleLater ==
    \E a \in Agents :
        /\ Completed("track")
        /\ done.agent = a
        /\ accepted[a] = 2
        /\ clock > StartTime
        /\ getLastLocation(a).lat = 1
        /\ getLastLocation(a).ts = PastTime
        /\ getAgentState(a).lastLocation.lat = 1
        /\ getAgentState(a).lastUpdate = clock

\* The list without the entry of zone z.
WithoutZone(list, z) == SelectSeq(list, LAMBDA e : e.id # z)

\* C13 as stated: when removeGeofence(z) follows registerGeofence(z),
\* getGeofences is what it was before the registration, whether or not a
\* zone with the id of z was registered before.
C13_RegisterRemove ==
    Completed("removeGeofence") /\ done.undoes => getGeofences = done.before

\* C13 amended: when removeGeofence(z) follows registerGeofence(z),
\* getGeofences is what it was before the registration without the entry of
\* z: the same list when no zone with that id was registered before, and a
\* list that has lost the zone when one was, since registerGeofence
\* overwrites it and removeGeofence deletes it.
C13_RegisterRemoveNew ==
    Completed("removeGeofence") /\ done.undoes
        => getGeofences = WithoutZone(done.before, done.arg)

\* A zone has been registered beside another and removed again.
C13_RemovedBesideAnother ==
    /\ Completed("removeGeofence")
    /\ done.undoes
    /\ done.arg = "z2"
    /\ Len(done.before) = 1
    /\ getGeofences = done.before

\* The step is a call of unsubscribeEvents that is let through.
UnsubscribeDone == calls' = calls + 1 /\ done'.op = "unsubscribeEvents" /\ done' # done

\* C14: unsubscribeEvents of an initialized service succeeds, with or
\* without subscribers, and leaves no handler; a second call in a
\* row, or a call without subscribers, changes nothing that the first has
\* left; and every event published later is handed only to handlers that
\* were subscribed after it.
C14_UnsubscribeIdempotent ==
    /\ [][UnsubscribeDone => err' = "none" /\ eventHandlers' = <<>>]_vars
    /\ [][(UnsubscribeDone /\ (done.op = "unsubscribeEvents" \/ eventHandlers = <<>>))
             => UNCHANGED <<eventHandlers, svcVars, storeVars, geoVars, tasks, clock>>]_vars
    /\ [](\A i \in 1..Len(published) : published[i].handlers = subscribed)
    /\ [](done.op = "unsubscribeEvents" /\ subscribed = <<>>
             => \A i \in 1..Len(published) : published[i].handlers = <<>>)

\* After a subscriber was dropped by unsubscribeEvents, called twice in a
\* row, an event is published and handed to nobody.
C14_PublishedToNobody ==
    /\ done.op = "unsubscribeEvents"
    /\ done.arg = "again"
    /\ done.before # <<>>
    /\ published # <<>>
    /\ published[1].handlers = <<>>

\* C17 as stated: no handler that throws or rejects makes the operation that
\* published the event fail, and every subscriber is handed every event
\* that is published.
C17_HandlerFailureContained ==
    /\ ~done.failed
    /\ \A i \in 1..Len(published) : published[i].handlers = eventHandlers

\* The step belongs to a shutdown that follows a completed shutdown: its
\* call, or its return.
SecondShutdownStep ==
    \E t \in TaskIds :
        \/ /\ tasks[t].op = "idle"
           /\ tasks'[t].op = "shutdown"
           /\ tasks'[t].status = "again"
        \/ /\ tasks[t].op = "shutdown"
           /\ tasks[t].status = "again"

\* C15: a shutdown that follows a completed shutdown is answered without
\* error and changes neither the initialized flag, nor the watchdog, nor
\* the stored data, the subscribers or the geofence registry; after it, as
\* after the first, the service is uninitialized, the watchdog is stopped
\* and the storage is empty.
C15_ShutdownTwice ==
    /\ [][SecondShutdownStep
             => /\ err' \in {"none", err}
                /\ UNCHANGED <<svcVars, storeVars, eventHandlers, geoVars>>]_vars
    /\ [][\A t \in TaskIds :
              tasks[t].op = "idle" /\ tasks'[t].op = "shutdown" => err' = "none"]_vars
    /\ [](Completed("shutdown")
             => /\ ~initialized
                /\ ~isRunning
                /\ eventHandlers = <<>>
                /\ \A a \in Agents :
                       /\ ~getLastLocation(a).has
                       /\ getStatus(a) = NoStatus
                       /\ ~getAgentState(a).has
                       /\ ~getAgentStats(a).has)

\* A service that has run has been shut down twice.
C15_ShutDownAgain ==
    /\ Completed("shutdown")
    /\ done.arg = "again"
    /\ nextTick # 0
    /\ ~initialized

\* The events a track has published begin with its location.received, and
\* hold no other.
ReceivedFirst(trace) ==
    \A i \in 1..Len(trace) : (trace[i] = "location.received") <=> (i = 1)

\* C16: the first event a track publishes is its location.received, before
\* any status.changed, specialized status event or geofence event of the
\* sample, and a track that returns has published it; the write of the
\* snapshot is the last step of the call.
C16_TrackOrder ==
    /\ [](\A t \in TaskIds : tasks[t].op = "track" => ReceivedFirst(tasks[t].trace))
    /\ [](Completed("track") => done.trace # <<>> /\ ReceivedFirst(done.trace))
    /\ [][\A t \in TaskIds :
              tasks[t].op = "track" /\ tasks'[t] # tasks[t]
                  => /\ (states' # states \/ tasks[t].pc = "saveState")
                         => tasks'[t].op = "idle"
                     /\ (tasks'[t].op = "idle" /\ ~done'.failed)
                         => /\ tasks[t].pc = "saveState"
                            /\ states'[tasks[t].agent].has
                            /\ states'[tasks[t].agent].lastLocation = tasks[t].loc
                            /\ UNCHANGED <<locations, statuses, stats>>]_vars

\* A track has returned after it published its location.received, a change
\* of status and the entry into a zone, in this order.
C16_ReceivedChangedEntered ==
    /\ Completed("track")
    /\ Len(done.trace) >= 3
    /\ done.trace[1] = "location.received"
    /\ done.trace[2] = "status.changed"
    /\ done.trace[Len(done.trace)] = Entered
    /\ getAgentState(done.agent).lastLocation = getLastLocation(done.agent)

\* The input the claim calls invalid: an agent id that is empty or no
\* string, a latitude outside [-90, 90], a longitude outside [-180, 180],
\* or a coordinate that is not a number.
InvalidTrackInput(a, lat, lon) ==
    \/ a = ""
    \/ a = NonString
    \/ lat = NaN
    \/ lon = NaN
    \/ lat < -MaxLatitude
    \/ lat > MaxLatitude
    \/ lon < -MaxLongitude
    \/ lon > MaxLongitude

\* C18: a track of an initialized service with invalid input fails with
\* the invalid-input error, publishes no event and persists nothing: last
\* locations, statuses, snapshots, statistics and geofence memberships are
\* what they were, and no call is left in flight.
C18_RejectedTrackNoEffect ==
    [][initialized /\ calls' = calls + 1
          => \A t \in TaskIds, i \in InvalidInputs :
                 (InvalidTrackInput(i[1], i[2], i[3]) /\ TrackCall(t, i[1], i[2], i[3], 0))
                     => /\ err' = "InvalidInput"
                        /\ published' = <<>>
                        /\ UNCHANGED <<storeVars, geoVars, eventHandlers, svcVars, tasks,
                                       accepted, received>>]_vars

\* A track has been rejected for its input while the agent of the track
\* before it has a snapshot and is inside a zone.
C18_RejectedBesideSnapshot ==
    /\ Idle
    /\ err = "InvalidInput"
    /\ done.op = "track"
    /\ accepted[done.agent] = 1
    /\ getAgentState(done.agent).has
    /\ getAgentGeofences(done.agent) = {"z1"}

\* C19 as stated, in the part it singles out: once the track calls of an
\* agent have completed, however their steps overlapped, the lastLocation of
\* the snapshot is the stored last location, as it is after the calls in
\* either serial order.
C19_SnapshotIsLastLocation ==
    Idle => \A a \in Agents :
                getAgentState(a).has => getAgentState(a).lastLocation = getLastLocation(a)

\* The evaluations of the status by time that are under way for agent a:
\* each has read the snapshot and has not yet returned.
Evaluations(a) ==
    {t \in TaskIds : tasks[t].op \in {"forceWatchdogCheck", "check"} /\ tasks[t].agent = a}

\* C20 as stated: the evaluations of two sweeps or forced checks never
\* interleave for an agent: while one has read the snapshot and has not
\* returned, no other is under way for the same agent.
C20_OneEvaluationPerAgent ==
    \A a \in Agents : Cardinality(Evaluations(a)) <= 1

\* The number of times handler h stands in a list of handlers.
Count(handlers, h) == Cardinality({i \in 1..Len(handlers) : handlers[i] = h})

\* The events the call in slot t has published once the step is taken.
TraceAfter(t) == IF tasks'[t].op = "idle" THEN done'.trace ELSE tasks'[t].trace

\* C21: every event is handed, in the step that publishes it, to the
\* handlers subscribed since the latest unsubscribeEvents or shutdown, once
\* for each subscription and in the order of the subscriptions, and to no
\* other; a step publishes at most one event, so that each handler sees
\* the events of a call in the order the call publishes them.
C21_InvokedOncePerEvent ==
    /\ [](Len(published) <= 1)
    /\ [](\A i \in 1..Len(published) : \A h \in Handlers :
              Count(published[i].handlers, h) = Count(subscribed, h))
    /\ [](eventHandlers = subscribed)
    /\ [][\A t \in TaskIds :
              (tasks[t].op # "idle" /\ Len(TraceAfter(t)) > Len(tasks[t].trace))
                  => /\ Len(TraceAfter(t)) = Len(tasks[t].trace) + 1
                     /\ Len(published') = 1
                     /\ published'[1].type = TraceAfter(t)[Len(TraceAfter(t))]
                     /\ published'[1].handlers = subscribed]_vars

\* The last call of a run publishes a change of status to two subscribers,
\* the first of which throws.
C21_SecondEventToBoth ==
    /\ Len(published) = 1
    /\ published[1].type = "status.changed"
    /\ published[1].handlers = <<"throws", "returns">>
    /\ calls = budget

\* The setStatus in slot t has just published its status.changed.
SetStatusPublished(t) == tasks[t].op = "setStatus" /\ tasks[t].pc = "emitGetState"

\* C22: once setStatus(a, s) has completed, the persisted status of a is s,
\* whatever the thresholds and the time that has passed; when the status p
\* that was persisted differs from s, the call publishes one status.changed,
\* from p (from OFFLINE when none was persisted) to s, and when it does not
\* differ the call publishes nothing.
C22_SetStatusForces ==
    /\ Completed("setStatus")
           => /\ getStatus(done.agent) = done.arg
              /\ Count(done.trace, "status.changed")
                     = (IF done.prior = done.arg THEN 0 ELSE 1)
              /\ done.prior = done.arg => done.trace = <<>>
    /\ \A t \in TaskIds :
           SetStatusPublished(t)
               => /\ tasks[t].prior # tasks[t].status
                  /\ getStatus(tasks[t].agent) = tasks[t].status
                  /\ published =
                         <<Event("status.changed", tasks[t].agent,
                                 IF tasks[t].prior = NoStatus THEN "OFFLINE"
                                 ELSE tasks[t].prior,
                                 tasks[t].status, "", 0)>>

\* An agent that has been silent for longer than offlineAfter is set to
\* MOVING by hand, from the STOPPED its sample had left.
C22_SetMovingWhileSilent ==
    /\ Completed("setStatus")
    /\ done.arg = "MOVING"
    /\ done.prior = "STOPPED"
    /\ done.trace = <<"status.changed">>
    /\ getAgentState(done.agent).has
    /\ isOlderThan(getAgentState(done.agent).lastUpdate, cfg.offlineAfter, clock)

\* C23 as stated: an agent becomes known (is returned by getAllAgents) in a
\* step of a track or a setStatus for it, and stops being known only when
\* clearAgentData is called for it: no other operation, shutdown included,
\* removes a known agent.
C23_KnownUntilCleared ==
    [][\A a \in Agents :
          /\ (a \notin getAllAgents /\ a \in getAllAgents')
                 => \E t \in TaskIds :
                        tasks[t].op \in {"track", "setStatus"} /\ tasks[t].agent = a
          /\ (a \in getAllAgents /\ a \notin getAllAgents')
                 => \E t \in TaskIds :
                        /\ tasks[t].op = "idle"
                        /\ tasks'[t].op = "clearAgentData"
                        /\ tasks'[t].agent = a]_vars

\* C24 as stated: when a track derives the status of a sample whose
\* timestamp exceeds that of the agent's previously accepted sample by more
\* than unreachableAfter, the status it derives is ACTIVE, whatever the
\* speed of the sample.
C24_ActiveAfterGap ==
    [][\A t \in TaskIds :
          (/\ tasks[t].op = "track"
           /\ tasks[t].pc = "detect"
           /\ tasks'[t].op = "track"
           /\ tasks[t].prev.has
           /\ tasks[t].loc.ts - tasks[t].prev.ts > cfg.unreachableAfter)
              => tasks'[t].new = "ACTIVE"]_vars

\* C25 as stated: a check by time of a snapshot whose lastUpdate is older
\* than offlineAfter and whose status is not OFFLINE results in OFFLINE,
\* also when its lastMovement is older than idleAfter and its status is
\* ACTIVE or MOVING.
C25_SilenceYieldsOffline ==
    [][\A t \in TaskIds :
          (/\ tasks[t].op \in CaughtOps
           /\ tasks[t].pc = "evaluate"
           /\ tasks'[t] # tasks[t]
           /\ tasks[t].state.has
           /\ tasks[t].state.lastUpdate # 0
           /\ isOlderThan(tasks[t].state.lastUpdate, cfg.offlineAfter, clock)
           /\ tasks[t].state.status # "OFFLINE")
              => /\ tasks'[t].new = "OFFLINE"
                 /\ statuses'[tasks[t].agent] = "OFFLINE"]_vars

\* The specialized events the table gives for a transition.
TableEvents(old, new) ==
    {e \in {"agent.unreachable", "agent.back-online", "agent.idle", "agent.active"} :
        \/ e = "agent.unreachable" /\ new = "UNREACHABLE" /\ old # "UNREACHABLE"
        \/ e = "agent.back-online" /\ old \in {"UNREACHABLE", "OFFLINE"}
                                   /\ new \in {"ACTIVE", "MOVING"}
        \/ e = "agent.idle" /\ new = "IDLE" /\ old # "IDLE"
        \/ e = "agent.active" /\ new = "ACTIVE" /\ old \in {"IDLE", "STOPPED"}}

\* The types of the events a step has published.
PublishedTypes(events) == {events[i].type : i \in 1..Len(events)}

SpecializedTypes == {"agent.unreachable", "agent.back-online", "agent.idle", "agent.active"}

\* C26: the specialized events published for a transition old -> new are
\* exactly those of the table, at most one for a transition; they are
\* published only by the step that ends updateStatus, when the new status
\* is saved and status.changed is the latest event of the call.
C26_SpecializedEvents ==
    [][/\ \A t \in TaskIds :
              (tasks[t].pc = "emitSpecific" /\ tasks'[t] # tasks[t])
                  => /\ PublishedTypes(published') = TableEvents(tasks[t].old, tasks[t].new)
                     /\ Len(published') <= 1
                     /\ \A i \in 1..Len(published') :
                            /\ published'[i].oldStatus = tasks[t].old
                            /\ published'[i].newStatus = tasks[t].new
                            /\ published'[i].agent = tasks[t].agent
                     /\ getStatus(tasks[t].agent) = tasks[t].new
                     /\ tasks[t].trace # <<>>
                     /\ tasks[t].trace[Len(tasks[t].trace)] = "status.changed"
       /\ PublishedTypes(published') \cap SpecializedTypes # {}
              => \E t \in TaskIds : tasks[t].pc = "emitSpecific" /\ tasks'[t] # tasks[t]
       /\ \A a \in Agents :
              statuses'[a] \notin {statuses[a], NoStatus}
                  => \E t \in TaskIds : /\ tasks'[t].pc = "publishChanged"
                                        /\ tasks'[t].agent = a
                                        /\ tasks'[t].new = statuses'[a]]_vars

\* An agent set OFFLINE by hand has been set to ACTIVE: the call has
\* published status.changed and then agent.back-online, and no agent.active.
C26_BackOnlineOnly ==
    /\ Completed("setStatus")
    /\ done.prior = "OFFLINE"
    /\ done.arg = "ACTIVE"
    /\ done.trace = <<"status.changed", "agent.back-online">>
    /\ Len(published) = 1
    /\ published[1].type = "agent.back-online"

\* C27: when the status a track derives for its sample is the persisted
\* status of the agent, the track writes no status and publishes neither
\* status.changed nor a specialized status event; otherwise it persists the
\* derived status and publishes status.changed once.  No other step of a
\* track writes a status.
C27_StatusWriteOnChange ==
    /\ [][\A t \in TaskIds :
              (tasks[t].op = "track" /\ tasks'[t] # tasks[t])
                  => IF tasks[t].pc # "detect" THEN statuses' = statuses
                     ELSE IF tasks'[t].new = statuses[tasks[t].agent]
                     THEN statuses' = statuses /\ tasks'[t].pc # "publishChanged"
                     ELSE /\ statuses' = [statuses EXCEPT ![tasks[t].agent] = tasks'[t].new]
                          /\ tasks'[t].pc = "publishChanged"]_vars
    /\ [](Completed("track")
             => IF done.prior = getStatus(done.agent)
                THEN \A i \in 1..Len(done.trace) :
                         done.trace[i] \notin SpecializedTypes \cup {"status.changed"}
                ELSE Count(done.trace, "status.changed") = 1)

\* A second sample of an agent has been tracked after a while and has
\* derived the status the first had left: the track has published its
\* location.received and nothing else.
C27_SameStatusNoEvent ==
    /\ Completed("track")
    /\ done.prior = "STOPPED"
    /\ getStatus(done.agent) = "STOPPED"
    /\ done.trace = <<"location.received">>
    /\ clock > StartTime

SweepOps == {"performCheck", "forceWatchdogCheckAll"}

\* The check in slot t of a sweep fails in this step: the publication of
\* its transition is rejected.
CheckFails(t) ==
    /\ tasks[t].op = "check"
    /\ tasks[t].pc \in {"publishChanged", "emitSpecific"}
    /\ publishRejects
    /\ published' # <<>>
    /\ tasks'[t].op = "idle"

\* C28: when the check of one agent fails during a sweep, the checks of
\* the other agents and the sweep itself go on as they were and no failure
\* reaches the caller or the timer; a sweep returns only when every agent
\* that getAllAgents returned has been checked (the status of each agent
\* whose snapshot asks for a transition has been saved), and the interval
\* stays scheduled.
C28_SweepIsolatesFailures ==
    /\ [][\A t \in TaskIds :
              CheckFails(t)
                  => /\ \A u \in TaskIds \ {t} : tasks'[u] = tasks[u]
                     /\ tasks'[tasks[t].parent].op \in SweepOps
                     /\ UNCHANGED <<done, svcVars, storeVars, err>>]_vars
    /\ [][\A t \in TaskIds :
              (tasks[t].op \in SweepOps /\ tasks'[t].op = "idle")
                  => /\ ~done'.failed
                     /\ done'.op = tasks[t].op
                     /\ UNCHANGED svcVars
                     /\ \A a \in tasks[t].agents :
                            (/\ getAgentState(a).has
                             /\ getAgentState(a).lastUpdate # 0
                             /\ timeStatus(getAgentState(a), clock) # getAgentState(a).status)
                                => getStatus(a) = timeStatus(getAgentState(a), clock)]_vars
    /\ [](initialized /\ cfg.watchdogEnabled => isRunning /\ nextTick + cfg.checkInterval > clock)

\* A sweep of the timer has returned after the checks of both agents had
\* their publication rejected: both statuses have been saved by the
\* watchdog.
C28_BothCheckedDespiteFailures ==
    /\ Completed("performCheck")
    /\ publishRejects
    /\ \A a \in Agents : getStatus(a) = "OFFLINE" /\ setBy[a] = "watchdog"
    /\ isRunning

\* The step is a removeGeofence that is let through.
RemoveDone ==
    /\ initialized
    /\ calls' = calls + 1
    /\ err' = "none"
    /\ tasks' = tasks
    /\ done'.op = "removeGeofence"

\* C29: removeGeofence(z) erases z from the registry and from the
\* membership set of every agent and publishes no event; the other zones
\* and their order, the other memberships, the stored locations, statuses,
\* snapshots and statistics, the subscribers and the service are left as
\* they are.
C29_RemoveErasesSilently ==
    [][RemoveDone
          => LET z == done'.arg IN
             /\ ~geofences'[z].has
             /\ \A i \in 1..Len(getGeofences') : getGeofences'[i].id # z
             /\ \A a \in Agents :
                    /\ z \notin agentGeofences'[a].ids
                    /\ agentGeofences'[a].ids = agentGeofences[a].ids \ {z}
                    /\ agentGeofences'[a].has = agentGeofences[a].has
             /\ published' = <<>>
             /\ \A y \in Zones \ {z} : geofences'[y] = geofences[y]
             /\ getGeofences' = WithoutZone(getGeofences, z)
             /\ UNCHANGED <<storeVars, eventHandlers, svcVars, clock>>]_vars

\* A zone has been removed while an agent was inside it and another agent
\* was inside another zone: the first agent is in no zone any more, its
\* snapshot is as its track left it, and the other agent is where it was.
C29_RemovedUnderAgent ==
    /\ Completed("removeGeofence")
    /\ done.arg = "z1"
    /\ published = <<>>
    /\ geoReset["a1"]["z1"]
    /\ getAgentGeofences("a1") = {}
    /\ getAgentState("a1").activeGeofences = {"z1"}
    /\ getAgentGeofences("a2") = {"z2"}

\* The zones the claim calls invalid: without id or name, a circle with a
\* radius that is not positive or a centre that is no valid coordinate, a
\* polygon with fewer than three vertices or with a vertex that is no valid
\* coordinate.
InvalidZone(g) ==
    \/ ~g.named
    \/ /\ g.type = "circular"
       /\ (g.radius <= 0 \/ ~isValidCoordinate(g.lat, g.lon))
    \/ /\ g.type = "polygon"
       /\ \/ Len(g.coordinates) < 3
          \/ \E i \in 1..Len(g.coordinates) :
                 ~isValidCoordinate(g.coordinates[i].lat, g.coordinates[i].lon)

\* C30 as stated: registerGeofence of an initialized service rejects an
\* invalid zone with the invalid-input error and leaves the registry as it
\* is; a valid zone is inserted or overwrites the zone of its id, no other
\* zone and no membership set changes, and no event is published.
C30_RegisterValidates ==
    [][initialized /\ calls' = calls + 1
          => \A z \in Zones, g \in ZoneInputs :
                 registerGeofence(z, g)
                     => IF InvalidZone(g)
                        THEN /\ err' = "InvalidInput"
                             /\ published' = <<>>
                             /\ UNCHANGED <<geoVars, storeVars, tasks>>
                        ELSE /\ err' = "none"
                             /\ published' = <<>>
                             /\ geofences' = [geofences EXCEPT ![z] = g]
                             /\ UNCHANGED <<agentGeofences, storeVars, tasks>>]_vars

\* C31: at most one periodic task of the watchdog is scheduled at any time,
\* and one is scheduled exactly while the engine runs; none is scheduled when
\* the watchdog is disabled, nor after a stop (of the engine or by shutdown);
\* a start while it runs and a stop while it is stopped change nothing; and
\* a tick begins only while the engine runs.
C31_OneWatchdogTask ==
    /\ [](/\ timers <= 1
          /\ isRunning <=> timers = 1
          /\ ~cfg.watchdogEnabled => timers = 0)
    /\ [][/\ WatchdogStopCall \/ Shutdown => ~isRunning' /\ timers' = 0
          /\ (WatchdogStartCall /\ isRunning) \/ (WatchdogStopCall /\ ~isRunning)
                 => UNCHANGED <<isRunning, nextTick, timers, initialized, tasks,
                                storeVars, geoVars, eventHandlers>>
          /\ WatchdogStartCall /\ ~isRunning /\ cfg.watchdogEnabled
                 => isRunning' /\ timers' = 1
          /\ Ticks => isRunning /\ timers = 1]_vars

\* The engine is started while it runs, when its interval has elapsed.
C31_StartedWhileRunning ==
    /\ done.op = "watchdog.start" /\ done.arg = "again"
    /\ timers = 1
    /\ clock >= StartTime + cfg.checkInterval
\* C32: once a track that wrote the status of its agent has completed and
\* less than the lowest threshold has passed since its sample, the persisted
\* status is neither UNREACHABLE nor OFFLINE: no check that read the snapshot
\* earlier persists its transition after the track's write.
C32_TrackOutlastsCheck ==
    /\ Completed("track")
    /\ \E i \in 1..Len(done.trace) : done.trace[i] = "status.changed"
    /\ locations[done.agent].has
    /\ clock - locations[done.agent].ts < cfg.unreachableAfter
    /\ clock - locations[done.agent].ts < cfg.offlineAfter
    => statuses[done.agent] \notin Silent
\* C33: when a forced check of a known agent that has no snapshot has
\* completed, the persisted status of the agent is OFFLINE.
C33_NoSnapshotYieldsOffline ==
    /\ Completed("forceWatchdogCheck")
    /\ done.agent \in getAllAgents
    /\ ~getAgentState(done.agent).has
    => getStatus(done.agent) = "OFFLINE"
\* C34: a sample flagged as an abnormal jump (more than maxJumpDistance from
\* the previous sample, at least 1000 ms after it) is accepted like any
\* other: it is persisted as the last location, totalLocations grows by
\* one, location.received is published for it, and the track succeeds.
C34_JumpAccepted ==
    /\ [][\A t \in TaskIds :
            LET k == tasks[t] IN
            /\ k.op = "track" /\ k.pc = "saveLocation" /\ Flagged(k) /\ tasks'[t] # k
                   => /\ locations'[k.agent].has
                      /\ locations'[k.agent].lat = k.lat
                      /\ locations'[k.agent].lon = k.lon
                      /\ locations'[k.agent].ts = k.loc.ts
                      /\ stats'[k.agent].totalLocations
                             = stats[k.agent].totalLocations + 1
                      /\ tasks'[t].pc = "publishLocation"
                      /\ tasks'[t].jump
            /\ k.op = "track" /\ k.pc = "publishLocation" /\ k.jump /\ tasks'[t] # k
                   => /\ Len(published') = 1
                      /\ published'[1].type = "location.received"
                      /\ published'[1].agent = k.agent
                      /\ tasks'[t].op = "track"]_vars
    /\ [](done.op = "track" /\ done.jump
              => /\ ~done.failed
                 /\ done.trace # <<>>
                 /\ done.trace[1] = "location.received")

\* A track of a sample 333 m from the one before it, a second later, has
\* completed: it is the last location and the second sample counted.
C34_JumpTracked ==
    /\ Completed("track")
    /\ done.jump
    /\ locations[done.agent].lat = 3
    /\ stats[done.agent].totalLocations = 2
\* C35: when a track, a setStatus or a forced check has completed, the
\* status in the snapshot of its agent equals the persisted status of the
\* agent, whenever the agent has both.
C35_SnapshotStatusPersisted ==
    /\ Idle
    /\ done.op \in {"track", "setStatus", "forceWatchdogCheck"}
    /\ ~done.failed
    /\ getAgentState(done.agent).has
    /\ getStatus(done.agent) # NoStatus
    => getAgentState(done.agent).status = getStatus(done.agent)
\* C36: a forced check that finds the status of its agent persisted by an
\* earlier check, with no track since, publishes status.changed only when it
\* changes the persisted status: no transition is published twice.
C36_TransitionPublishedOnce ==
    /\ Completed("forceWatchdogCheck")
    /\ done.priorBy = "watchdog"
    /\ \E i \in 1..Len(done.trace) : done.trace[i] = "status.changed"
    => getStatus(done.agent) # done.prior
\* C37: the oldStatus of every status.changed event of an agent that had a
\* persisted status is the status that was persisted when the call that
\* publishes it was made, which is the newStatus of the event before it.
C37_StatusChain ==
    \A t \in TaskIds :
        /\ tasks[t].op \in StatusOps
        /\ tasks[t].pc = "emitGetState"
        /\ Len(published) = 1
        /\ published[1].type = "status.changed"
        /\ tasks[t].prior # NoStatus
        => published[1].oldStatus = tasks[t].prior
\* C38: every zone id in the membership set of an agent is the id of a
\* registered zone.
C38_MembersAreRegistered ==
    \A a \in Agents : \A z \in agentGeofences[a].ids : geofences[z].has
\* A step that writes a location, a status or a snapshot to the store.
StoreWrite ==
    \E a \in Agents :
        \/ locations'[a] # locations[a] /\ locations'[a].has
        \/ statuses'[a] # statuses[a] /\ statuses'[a] # NoStatus
        \/ states'[a] # states[a] /\ states'[a].has

\* C39: while the service is not initialized and no shutdown is under way
\* (from the moment shutdown has resolved until the next initialize), no
\* step writes to the store and no step publishes an event.
C39_QuietAfterShutdown ==
    [][~initialized /\ (\A t \in TaskIds : tasks[t].op # "shutdown")
           => ~StoreWrite /\ published' = <<>>]_vars
\* C40: when an initialize of a service that was not initialized has
\* completed, the service holds no data of any agent: no agent is known,
\* none has a location, a status, a snapshot or statistics, and none is in
\* a zone; and a completed track of an agent that had no data, to a point
\* inside a registered zone, has published agent.entered-geofence.
C40_NothingSurvivesRestart ==
    /\ Idle /\ done.op = "initialize" /\ done.arg # "already"
           => /\ getAllAgents = {}
              /\ \A a \in Agents :
                     /\ ~getLastLocation(a).has
                     /\ getStatus(a) = NoStatus
                     /\ ~getAgentState(a).has
                     /\ ~getAgentStats(a).has
                     /\ getAgentGeofences(a) = {}
    /\ Completed("track") /\ done.fresh
           => \A z \in Zones :
                  geofences[z].has
                  /\ isPointInGeofence(locations[done.agent].lat,
                                       locations[done.agent].lon, geofences[z])
                  => \E i \in 1..Len(done.trace) : done.trace[i] = Entered
====
